---------------------------- MODULE Spec2Model ----------------------------
(***************************************************************************)
(* A model of wechat-publisher-mcp: the WeChatAPI service (access-token    *)
(* cache, cover upload, draft + publish, preview, status query) and the    *)
(* two tools built on it, WeChatPublisher.publish and WeChatStatus.query.   *)
(*                                                                         *)
(* Every async function is a sequential process that runs without          *)
(* interruption between two awaits (the JavaScript event loop): one action  *)
(* is the code from one await to the next.  A process has at most one       *)
(* request in flight (net[p]); the platform's answer is chosen when the     *)
(* response is delivered.  Time is the millisecond clock `now`              *)
(* (Date.now()).                                                            *)
(*                                                                         *)
(* The code between two awaits is written as a function on the record m    *)
(* of everything the running process can read or write (Machine); an       *)
(* action applies such a function and stores the outcome (Commit).         *)
(*                                                                         *)
(* A string is the sequence of its parts: "test_app" is <<"test_", "app">>, *)
(* a template string the concatenation of its pieces.                      *)
(***************************************************************************)
EXTENDS Integers, Sequences, FiniteSets, TLC

VARIABLES
    now,      \* Date.now(), in milliseconds
    api,      \* WeChatAPI instances: [appId, accessToken, tokenExpireTime]
    inst,     \* inst[p]: the WeChatAPI instance process p works on
    pc,       \* pc[p]: the await process p is at ("idle": none)
    req,      \* req[p]: the params of the tool call p is serving
    frame,    \* frame[p]: the local variables of p's running call
    net,      \* net[p]: the request p has in flight, or NoReq
    log,      \* log[p]: history of the remote operations of p's current
              \* call: each one sent, and how the code took its response
    result,   \* result[p]: the response of p's last finished tool call
    calls,    \* tool calls finished so far
    prev,     \* history: the appId and the expiry of the token cache that
              \* the last finished call that cached a token left behind
    last,     \* history: the getAccessToken invocation that completed last
    gets,     \* getAccessToken invocations started so far in the running
              \* tool call (without tool calls: started so far, by anyone)
    content,  \* the argument of extractDigest, a sequence of characters
    digest,   \* what extractDigest returned last
    applied,  \* how often the function under study has been applied
    status,   \* the argument of getStatusText, a publish_status code
    statusText, \* what getStatusText returned
    request,  \* the params of the tools/call request the handler serves
    logged,   \* what the handler has written to the logger, in order
    invoked,  \* the tool methods the handler has called, with the
              \* params object each was handed
    reply     \* how the handler's promise settled, or NoReply

vars == <<now, api, inst, pc, req, frame, net, log, result, calls, prev,
          last, gets, content, digest, applied, status, statusText,
          request, logged, invoked, reply>>

----------------------------------------------------------------------------
(* Bounds of the model *)

NProcs == 2
MaxTicks == 2
MaxGets == 3
MaxCalls == 2

(* Program constants *)

InitialExpireTime == 0
SafetyMarginSec == 60
MsPerSec == 1000
SettleMs == 3000
MockPublishIdLag == 1000

Procs == 1..NProcs

(* expires_in values (seconds) the platform may report: the real one, one  *)
(* that leaves a 1 s cache life, and one below the 60 s margin.            *)
ExpiresIn == {7200, 61, 30}

(* An access token is an opaque string to the program.  The model writes   *)
(* it as the serial number of the request that obtained it together with   *)
(* the time at which the platform lets it expire; the program reads        *)
(* neither, it only stores, compares with null and passes the value on.    *)
NoToken == [id |-> 0, expiresAt |-> 0]

(* JavaScript's null and undefined, and what is falsy among strings. *)
Null == <<"<null>">>
Undefined == <<"<undefined>">>
Falsy(x) == x \in {Null, Undefined, <<>>}

(* `${x}` *)
Interp(x) ==
    IF x = Undefined THEN <<"undefined">>
    ELSE IF x = Null THEN <<"null">> ELSE x

(* str.startsWith(prefix), for a prefix that is one part *)
StartsWith(str, prefix) == Len(str) > 0 /\ str[1] = prefix

(* A request in flight.  For fetchToken: sentAt is also getAccessToken's   *)
(* local `now`; cached and cachedExpire are what the cache held when the   *)
(* invocation started; raced and rival say whether an overlapping refresh  *)
(* has written the cache since, and which expiry it stored.  For the       *)
(* requests that carry an article: thumb is the payload's thumb_media_id   *)
(* (Undefined: the payload has no such field).                             *)
NoReq == [op |-> "none", sentAt |-> 0, id |-> 0, cached |-> NoToken,
          cachedExpire |-> 0, raced |-> FALSE, rival |-> 0,
          thumb |-> Undefined]

Request(op, t) == [NoReq EXCEPT !.op = op, !.sentAt = t]

Max(a, b) == IF a >= b THEN a ELSE b

----------------------------------------------------------------------------
(* HTTP responses.  status 200: axios resolves with data.  Another status: *)
(* axios rejects with an error that carries error.response.  status 0: no  *)
(* response at all (timeout, DNS, connection refused): axios rejects with   *)
(* an error without .response.  A field a body lacks is absent from data.   *)

Has(data, f) == f \in DOMAIN data

Field(data, f) == IF Has(data, f) THEN data[f] ELSE Undefined

HttpError ==
    [status |-> 500, message |-> "Request failed with status code 500",
     data |-> [errcode |-> -1, errmsg |-> "system error"]]

NoResponse ==
    [status |-> 0, message |-> "timeout exceeded",
     data |-> [errcode |-> -1]]

Ok(data) == [status |-> 200, message |-> "", data |-> data]

(* What the platform may answer to fetchToken request number k, received   *)
(* at time t: a token minted at t that lives expires_in seconds, an error   *)
(* body, an error body that carries a token all the same, an HTTP error,    *)
(* or nothing.                                                              *)
TokenResponses(k, t) ==
    { Ok([access_token |-> [id |-> k, expiresAt |-> t + e * MsPerSec],
          expires_in |-> e]) : e \in ExpiresIn }
    \cup
    { Ok([errcode |-> 40013, errmsg |-> "invalid appid"]),
      Ok([errcode |-> 40001, errmsg |-> "invalid credential",
          access_token |-> [id |-> k, expiresAt |-> t + 7200 * MsPerSec],
          expires_in |-> 7200]),
      HttpError, NoResponse }

(* response.data.errmsg || '未知错误' *)
ErrmsgOrUnknown(data) ==
    IF Has(data, "errmsg") /\ data.errmsg # "" THEN data.errmsg
    ELSE "unknown error"

(* `${response.data.errmsg}` *)
ErrmsgText(data) ==
    IF Has(data, "errmsg") THEN data.errmsg ELSE "undefined"

(* Error objects.  An axios rejection carries .response when the platform  *)
(* answered; `new Error(text)` never does.  A message is the sequence of   *)
(* its parts: the prefixes the catch blocks put in front, then the text.   *)

AxiosError(r) ==
    [hasResponse |-> r.status # 0, data |-> r.data, message |-> <<r.message>>]

PlainError(m) ==
    [hasResponse |-> FALSE, data |-> [errcode |-> -1], message |-> m]

(* errorData.errmsg || error.message, as message parts *)
ErrmsgOrMessage(error) ==
    IF Has(error.data, "errmsg") /\ error.data.errmsg # ""
    THEN <<error.data.errmsg>> ELSE error.message

(* The catch block taking error.message in both branches. *)
RethrowMessageOnly(error, withResponse, without) ==
    IF error.hasResponse
    THEN <<withResponse>> \o error.message
    ELSE <<without>> \o error.message

(* The catch block every WeChatAPI method but uploadCoverImage ends with:  *)
(*   if (error.response) throw new Error(`<a>: ${errmsg || message}`)      *)
(*   else throw new Error(`<b>: ${error.message}`)                         *)
Rethrow(error, withResponse, without) ==
    IF error.hasResponse
    THEN <<withResponse>> \o ErrmsgOrMessage(error)
    ELSE <<without>> \o error.message

----------------------------------------------------------------------------
(* The state one process reads and writes *)

(* new WeChatAPI(appId, appSecret) *)
NewWeChatAPI(appId) ==
    [appId |-> appId, accessToken |-> NoToken,
     tokenExpireTime |-> InitialExpireTime]

(* No instance: before the first call, and after a call has returned and  *)
(* its instance is garbage. *)
NoInstance == NewWeChatAPI(<<>>)

(* The local variables of publish, query and the WeChatAPI method running. *)
NoFrame ==
    [thumbMediaId |-> Null, accessToken |-> NoToken, mediaId |-> Undefined,
     publishId |-> Undefined, msgId |-> Undefined]

NoParams ==
    [tool |-> "none", title |-> <<>>, content |-> <<>>, appId |-> <<>>,
     appSecret |-> <<>>, coverImagePath |-> Undefined,
     previewMode |-> FALSE, previewOpenId |-> Undefined,
     msgId |-> Undefined]

(* Status data not there. *)
NoStatus == [errcode |-> -1]

(* A tool's response: isError, the error message when it is one, and the  *)
(* fields of the WeChatAPI result it was built from when it is not, with   *)
(* the thumbMediaId buildSuccessMessage is given and the categories of     *)
(* the hints buildErrorMessage appended.                                   *)
(* The lines of the status message; Undefined: the line is not there. *)
NoMessage ==
    [articleId |-> Undefined, title |-> Undefined, author |-> Undefined,
     publishTime |-> Undefined, statusText |-> Undefined,
     stats |-> Undefined, url |-> Undefined]

NoResult ==
    [done |-> FALSE, isError |-> FALSE, error |-> <<>>, success |-> FALSE,
     publishId |-> Undefined, msgId |-> Undefined,
     articleUrl |-> Undefined, mediaId |-> Undefined, status |-> NoStatus,
     thumbMediaId |-> Null, hints |-> {}, message |-> NoMessage]

(* No tools/call request; the handler's promise not settled. *)
NoRequest == [name |-> "", arguments |-> <<>>]

NoReply == [done |-> FALSE, thrown |-> FALSE, isError |-> FALSE,
            text |-> <<>>]

NoPrev == [cached |-> FALSE, appId |-> <<>>, tokenExpireTime |-> 0]

(* The record kept of one getAccessToken invocation: when it started and   *)
(* what the cache held then, the fetchToken requests it sent, how it ended *)
(* and when, whether a platform response was received, the expiry it       *)
(* computed, and, when a refresh that overlapped it wrote the cache first  *)
(* (raced), the expiry that refresh stored (rival).                        *)
NoCall ==
    [state |-> "none", start |-> 0, cached |-> NoToken,
     cachedExpire |-> 0, fetches |-> 0, value |-> NoToken, retAt |-> 0,
     fresh |-> FALSE, computed |-> 0, raced |-> FALSE, rival |-> 0,
     responded |-> FALSE, error |-> <<>>]

(* What the four Math.random() draws of the fabricated status data can    *)
(* come to: the least and the greatest value of each counter.             *)
MockStatsMin ==
    [read_num |-> 200, like_num |-> 30, comment_num |-> 5, share_num |-> 10]

MockStatsMax ==
    [read_num |-> 699, like_num |-> 129, comment_num |-> 24, share_num |-> 59]

MockStats == {MockStatsMin, MockStatsMax}

(* Everything the running process p can read or write; rnd is the draw a  *)
(* step makes, chosen by the action.                                       *)
Machine(p) ==
    [now |-> now, api |-> api[inst[p]], pc |-> pc[p], req |-> req[p],
     f |-> frame[p], send |-> NoReq, log |-> log[p], res |-> result[p],
     calls |-> calls, prev |-> prev, last |-> last, gets |-> gets,
     wrote |-> FALSE, rnd |-> MockStatsMin]

(* Refreshes of other processes on p's instance that are in flight. *)
RefreshesInFlight(p) ==
    { q \in Procs \ {p} : inst[q] = inst[p] /\ net[q].op = "fetchToken" }

(* Store the outcome m of a step of p.  A step that wrote the token cache  *)
(* marks the overlapping refreshes still in flight as raced.               *)
Commit(p, m) ==
    /\ now' = m.now
    /\ api' = [api EXCEPT ![inst[p]] = m.api]
    /\ pc' = [pc EXCEPT ![p] = m.pc]
    /\ req' = [req EXCEPT ![p] = m.req]
    /\ frame' = [frame EXCEPT ![p] = m.f]
    /\ net' = [q \in Procs |->
                 IF q = p THEN m.send
                 ELSE IF m.wrote /\ q \in RefreshesInFlight(p)
                      THEN [net[q] EXCEPT !.raced = TRUE,
                                          !.rival = m.api.tokenExpireTime]
                      ELSE net[q]]
    /\ log' = [log EXCEPT ![p] = m.log]
    /\ result' = [result EXCEPT ![p] = m.res]
    /\ calls' = m.calls
    /\ prev' = m.prev
    /\ last' = m.last
    /\ gets' = m.gets
    /\ inst' = inst
    /\ UNCHANGED <<content, digest, applied, status, statusText,
                    request, logged, invoked, reply>>

(* An entry of the log: operation op was sent (with which thumb_media_id   *)
(* in its payload), or its response was taken as a success ("ok") or as a  *)
(* failure ("failed") by the code that awaited it; errcode is the          *)
(* application code the body of an HTTP 200 response carried (0: none),    *)
(* errmsg the errmsg text of the response body ("": none), data the body   *)
(* of an HTTP 200 response.                                                *)
NoBody == [none |-> TRUE]

Event(op, ev) ==
    [op |-> op, ev |-> ev, errcode |-> 0, errmsg |-> "",
     thumb |-> Undefined, data |-> NoBody]

Sent(rq) == [Event(rq.op, "sent") EXCEPT !.thumb = rq.thumb]

(* The embedded application code of a response that succeeded at           *)
(* transport level.                                                        *)
EmbeddedCode(r) ==
    IF r.status = 200 /\ Has(r.data, "errcode") THEN r.data.errcode ELSE 0

(* The errmsg text of a response's body, if the platform answered. *)
EmbeddedMsg(r) ==
    IF r.status # 0 /\ Has(r.data, "errmsg") THEN r.data.errmsg ELSE ""

Body(r) == IF r.status = 200 THEN r.data ELSE NoBody

(* The awaited response r of op has arrived and the code takes it as a     *)
(* success (ok) or throws.                                                 *)
Returned(m, op, r, ok) ==
    [m EXCEPT !.log = Append(@, [Event(op, IF ok THEN "ok" ELSE "failed")
                                   EXCEPT !.errcode = EmbeddedCode(r),
                                          !.errmsg = EmbeddedMsg(r),
                                          !.data = Body(r)])]

(* axios.get / axios.post: issue the request and await its response. *)
Send(m, op) ==
    [m EXCEPT !.send = Request(op, m.now), !.pc = op,
              !.log = Append(@, Sent(Request(op, m.now)))]

(* The same for a request whose payload is an article. *)
SendArticle(m, op, thumb) ==
    LET rq == [Request(op, m.now) EXCEPT !.thumb = thumb] IN
    [m EXCEPT !.send = rq, !.pc = op, !.log = Append(@, Sent(rq))]

(* publishArticle: `if (thumbMediaId && thumbMediaId !== null &&          *)
(* thumbMediaId !== 'null') articleData.thumb_media_id = thumbMediaId`;    *)
(* createNewsMedia: `...(thumbMediaId ? {thumb_media_id: ...} : {})`.      *)
DraftThumb(thumbMediaId) ==
    IF ~Falsy(thumbMediaId) /\ thumbMediaId # <<"null">>
    THEN thumbMediaId ELSE Undefined

NewsThumb(thumbMediaId) ==
    IF ~Falsy(thumbMediaId) THEN thumbMediaId ELSE Undefined

----------------------------------------------------------------------------
(* WeChatAPI.getAccessToken *)

CacheValidAtOrBefore(a, t) ==
    a.accessToken # NoToken /\ t <= a.tokenExpireTime

(* `this.accessToken && now < this.tokenExpireTime` *)
CacheValid(a, t) == a.accessToken # NoToken /\ t < a.tokenExpireTime

(* `now + (response.data.expires_in - 60) * 1000` *)
ExpireTime(t, expires_in) == t + (expires_in - SafetyMarginSec) * MsPerSec

(* The catch block of getAccessToken: it also catches the Error the try    *)
(* block itself throws for a body without access_token.                    *)
getAccessTokenCatch(error) ==
    Rethrow(error, "Access Token request failed: ",
                   "Access Token network request failed: ")

(* getAccessToken invoked on its own, outside a tool call, has ended: the  *)
(* invocation was the whole call.                                         *)
Direct(m) == [m EXCEPT !.pc = "idle", !.log = <<>>]

(* What the caller of getAccessToken does with the token, up to its next   *)
(* await, by call site.                                                    *)
AfterToken(m, site, token) ==
    LET m1 == [m EXCEPT !.f.accessToken = token] IN
    CASE site = "direct" -> Direct(m)
      [] site = "uploadCoverImage" -> [m1 EXCEPT !.pc = "fs.stat"]
      [] site = "publishArticle" ->
            SendArticle(m1, "createDraft", DraftThumb(m.f.thumbMediaId))
      [] site = "createNewsMedia" ->
            SendArticle(m1, "createPreviewMedia",
                        NewsThumb(m.f.thumbMediaId))
      [] site = "previewArticle" -> Send(m1, "sendPreview")
      [] site = "getPublishStatus" -> Send(m1, "fetchPublishStatus")

(* getAccessToken up to its await: serve the cache, or send the request. *)
getAccessToken(m, site) ==
    LET a == m.api
        m1 == [m EXCEPT !.gets = @ + 1]
    IN  IF CacheValid(a, m.now)
        THEN AfterToken(
                 [m1 EXCEPT !.last =
                     [NoCall EXCEPT
                        !.state = "returned", !.start = m.now,
                        !.cached = a.accessToken,
                        !.cachedExpire = a.tokenExpireTime,
                        !.value = a.accessToken, !.retAt = m.now]],
                 site, a.accessToken)
        ELSE [m1 EXCEPT
                !.send = [Request("fetchToken", m.now) EXCEPT
                            !.id = m.gets + 1,
                            !.cached = a.accessToken,
                            !.cachedExpire = a.tokenExpireTime],
                !.pc = site,
                !.log = Append(@, Event("fetchToken", "sent"))]

----------------------------------------------------------------------------
(* The end of a tool call *)

(* buildErrorMessage: the error's message behind the tool's own prefix. *)
buildErrorMessage(msg, tool) ==
    (IF tool = "status" THEN <<"status query failed: ">>
     ELSE <<"publish failed: ">>) \o msg

(* message.includes(needle), part by part.  The parts of the model stand   *)
(* for the program's texts: the two prefixes of createNewsMedia's catch    *)
(* block contain the character U+56FE ("image"), no other prefix contains  *)
(* a needle; of the platform's texts each contains what it shows.          *)
Needles(part) ==
    CASE part = "invalid credential, access_token is invalid" ->
            {"access_token"}
      [] part = "invalid ip 10.0.0.1, not in whitelist" -> {"ip"}
      [] part \in {"invalid media type", "invalid media_id"} -> {"media"}
      [] part \in {"create news media failed: ",
                   "create news media request failed: "} -> {"U+56FE"}
      [] OTHER -> {}

Includes(msg, needle) ==
    \E i \in 1..Len(msg) : needle \in Needles(msg[i])

(* The remediation hints buildErrorMessage appends, by category. *)
buildErrorHints(msg, tool) ==
    IF tool = "status"
    THEN { h \in {"credentials", "msgId"} :
             \/ h = "credentials" /\ Includes(msg, "access_token")
             \/ h = "msgId" /\ (Includes(msg, "msgId")
                                 \/ Includes(msg, "not found")) }
    ELSE { h \in {"credentials", "ip", "cover"} :
             \/ h = "credentials" /\ Includes(msg, "access_token")
             \/ h = "ip" /\ Includes(msg, "ip")
             \/ h = "cover" /\ (Includes(msg, "media")
                                 \/ Includes(msg, "U+56FE")) }

(* The tool returns its response: the call is over, its locals and its    *)
(* WeChatAPI instance are gone.                                            *)
Respond(m, res) ==
    [m EXCEPT !.res = res, !.pc = "idle", !.send = NoReq, !.f = NoFrame,
              !.api = NoInstance, !.calls = @ + 1,
              !.prev = IF m.api.accessToken # NoToken
                       THEN [cached |-> TRUE, appId |-> m.api.appId,
                             tokenExpireTime |-> m.api.tokenExpireTime]
                       ELSE m.prev]

(* The catch block returning its text without the isError flag. *)
FailUnflagged(m, msg) ==
    Respond(m, [NoResult EXCEPT !.done = TRUE,
                                !.error = buildErrorMessage(msg, m.req.tool)])

(* The catch block of publish and of query: an error response. *)
Fail(m, msg) ==
    Respond(m, [NoResult EXCEPT !.done = TRUE, !.isError = TRUE,
                                !.error = buildErrorMessage(msg, m.req.tool),
                                !.hints = buildErrorHints(msg, m.req.tool)])

(* The success response built from the WeChatAPI result r. *)
Succeed(m, r) ==
    Respond(m, [r EXCEPT !.done = TRUE, !.isError = FALSE, !.success = TRUE,
                         !.thumbMediaId = m.f.thumbMediaId])

----------------------------------------------------------------------------
(* WeChatAPI.publishArticle, previewArticle, getPublishStatus: entry *)

FallbackUrl(publishId) ==
    <<"https://mp.weixin.qq.com/s/">> \o Interp(publishId)

(* The end of publishArticle with the two identifiers mixed up. *)
publishArticleReturnMixed(m, articleUrl) ==
    Succeed(m, [NoResult EXCEPT
                  !.publishId = m.f.msgId, !.msgId = m.f.publishId,
                  !.articleUrl = IF Falsy(articleUrl)
                                 THEN FallbackUrl(m.f.publishId)
                                 ELSE articleUrl,
                  !.mediaId = m.f.mediaId])

(* The end of publishArticle: `if (!articleUrl) articleUrl = <fallback>`,  *)
(* then the result object.                                                 *)
publishArticleReturn(m, articleUrl) ==
    Succeed(m, [NoResult EXCEPT
                  !.publishId = m.f.publishId, !.msgId = m.f.msgId,
                  !.articleUrl = IF Falsy(articleUrl)
                                 THEN FallbackUrl(m.f.publishId)
                                 ELSE articleUrl,
                  !.mediaId = m.f.mediaId])

(* publishArticle up to its first await. *)
publishArticle(m) ==
    IF StartsWith(m.api.appId, "test_")
    THEN LET mockMsgId == <<ToString(m.now)>>
             mockPublishId == <<ToString(m.now - MockPublishIdLag)>>
         IN  Succeed(m, [NoResult EXCEPT
                           !.publishId = mockPublishId,
                           !.msgId = mockMsgId,
                           !.articleUrl =
                               <<"https://mp.weixin.qq.com/s/example_">>
                               \o mockMsgId,
                           !.mediaId = <<"test_media_id">>])
    ELSE getAccessToken(m, "publishArticle")

(* previewArticle up to its first await (which is createNewsMedia's). *)
previewArticle(m) ==
    LET previewOpenId == m.req.previewOpenId IN
    IF previewOpenId = <<"test_openid">> \/ StartsWith(previewOpenId, "test_")
    THEN LET mockMsgId == <<ToString(m.now)>> IN
         Succeed(m, [NoResult EXCEPT
                       !.msgId = mockMsgId,
                       !.articleUrl =
                           <<"https://mp.weixin.qq.com/s/example_">>
                           \o mockMsgId,
                       !.mediaId = <<"test_media_id">>])
    ELSE getAccessToken(m, "createNewsMedia")

(* Step 5 of publish: preview or publish. *)
publishStep5(m) ==
    IF m.req.previewMode
    THEN IF Falsy(m.req.previewOpenId)
         THEN Fail(m, <<"preview mode requires the previewOpenId param">>)
         ELSE previewArticle(m)
    ELSE publishArticle(m)

(* WeChatStatus.getStatusText: `statusMap[status] || <unknown>(status)`.   *)
(* The five texts are, in the source's order: publishing, published,       *)
(* publish failed, in review, review failed.                               *)
statusMap ==
    [s \in 0..4 |->
        CASE s = 0 -> <<"publishing">>
          [] s = 1 -> <<"published">>
          [] s = 2 -> <<"publish failed">>
          [] s = 3 -> <<"in review">>
          [] s = 4 -> <<"review failed">>]

(* getStatusText without the fallback of the last line. *)
getStatusTextNoFallback(s) ==
    IF s \in DOMAIN statusMap THEN statusMap[s] ELSE Undefined

getStatusText(s) ==
    IF s \in DOMAIN statusMap /\ ~Falsy(statusMap[s]) THEN statusMap[s]
    ELSE <<"unknown status(", ToString(s), ")">>

(* The status data getPublishStatus fabricates for a test id. *)
MockStatus(msgId, time, stat) ==
    [errcode |-> 0, errmsg |-> "ok", publish_status |-> 1,
     article_detail |->
        [count |-> 1,
         item |-> << [article_id |-> msgId,
                      title |-> <<"mock title">>,
                      author |-> <<"mock author">>,
                      url |-> <<"https://mp.weixin.qq.com/s/example_">>
                               \o msgId,
                      publish_time |-> time \div MsPerSec,
                      stat_info |-> stat] >>]]

(* `x || fallback`, for a string and for a number *)
OrElse(x, fallback) == IF Falsy(x) THEN fallback ELSE x

OrZero(stat, f) == IF Has(stat, f) THEN stat[f] ELSE 0

(* WeChatStatus.formatTimestamp *)
formatTimestamp(timestamp) ==
    IF timestamp \in {Undefined, Null, 0} THEN <<"unknown">>
    ELSE <<"date(", ToString(timestamp), ")">>

(* WeChatStatus.buildStatusMessage: the lines of the message. *)
buildStatusMessage(statusData) ==
    LET hasDetail == Has(statusData, "article_detail")
        detail == statusData.article_detail
        hasStat == hasDetail /\ Has(detail, "stat_info")
        stat == detail.stat_info
    IN  [articleId |-> IF ~Falsy(Field(statusData, "article_id"))
                       THEN statusData.article_id ELSE Undefined,
         title |-> IF hasDetail
                   THEN OrElse(Field(detail, "title"), <<"unknown">>)
                   ELSE Undefined,
         author |-> IF hasDetail
                    THEN OrElse(Field(detail, "author"), <<"unknown">>)
                    ELSE Undefined,
         publishTime |-> IF hasDetail
                         THEN formatTimestamp(Field(detail, "publish_time"))
                         ELSE Undefined,
         statusText |-> IF Has(statusData, "publish_status")
                        THEN getStatusText(statusData.publish_status)
                        ELSE Undefined,
         stats |-> IF hasStat
                   THEN [read |-> OrZero(stat, "read_num"),
                         like |-> OrZero(stat, "like_num"),
                         comment |-> OrZero(stat, "comment_num"),
                         share |-> OrZero(stat, "share_num")]
                   ELSE Undefined,
         url |-> IF hasDetail /\ ~Falsy(Field(detail, "url"))
                 THEN detail.url ELSE Undefined]

(* What the caller of getPublishStatus does with the status data:          *)
(* publishArticle takes the first item's url, query builds its response.   *)
AfterStatus(m, data) ==
    IF m.req.tool = "publish"
    THEN publishArticleReturn(m,
            IF Has(data, "article_detail")
               /\ Has(data.article_detail, "item")
               /\ Len(data.article_detail.item) > 0
            THEN IF Has(data.article_detail.item[1], "url")
                 THEN data.article_detail.item[1].url ELSE Undefined
            ELSE Null)
    ELSE Succeed(m, [NoResult EXCEPT
                        !.status = data,
                        !.message = buildStatusMessage(data)])

(* getPublishStatus without the branch for test ids. *)
getPublishStatusNoMock(m, msgId) == getAccessToken(m, "getPublishStatus")

(* getPublishStatus up to its first await. *)
getPublishStatus(m, msgId) ==
    IF ~Falsy(msgId) /\ StartsWith(msgId, "test_")
    THEN AfterStatus(m, MockStatus(msgId, m.now, m.rnd))
    ELSE getAccessToken(m, "getPublishStatus")

(* An error thrown by getPublishStatus that fails the caller, whichever    *)
(* it is.                                                                  *)
StatusThrownPropagates(m, msg) == Fail(m, msg)

(* An error thrown by getPublishStatus: publishArticle falls back to the   *)
(* synthesized URL, query fails.                                           *)
StatusThrown(m, msg) ==
    IF m.req.tool = "publish"
    THEN publishArticleReturn(m, FallbackUrl(m.f.publishId))
    ELSE Fail(m, msg)

(* The catch block of previewArticle. *)
previewArticleCatch(error) ==
    Rethrow(error, "article preview failed: ",
                   "article preview request failed: ")

(* A failed refresh that resets the cache before it throws. *)
TokenThrownResetting(m0, site, msg) ==
    LET m == [m0 EXCEPT !.api = NewWeChatAPI(m0.api.appId)] IN
    CASE site = "direct" -> Direct(m)
      [] site = "uploadCoverImage" -> publishStep5(m)
      [] site = "publishArticle" -> Fail(m, msg)
      [] site = "createNewsMedia" ->
            Fail(m, previewArticleCatch(PlainError(msg)))
      [] site = "previewArticle" ->
            Fail(m, previewArticleCatch(PlainError(msg)))
      [] site = "getPublishStatus" -> StatusThrown(m, msg)

(* Where an error thrown by getAccessToken lands, by call site. *)
TokenThrown(m, site, msg) ==
    CASE site = "direct" -> Direct(m)
      [] site = "uploadCoverImage" -> publishStep5(m)
      [] site = "publishArticle" -> Fail(m, msg)
      [] site = "createNewsMedia" ->
            Fail(m, previewArticleCatch(PlainError(msg)))
      [] site = "previewArticle" ->
            Fail(m, previewArticleCatch(PlainError(msg)))
      [] site = "getPublishStatus" -> StatusThrown(m, msg)

(* A refresh that stores its token but keeps the later of the stored and   *)
(* the computed expiry.                                                    *)
getAccessTokenResumeKeepLater(m0, rq, r) ==
    LET d == r.data
        site == m0.pc
        ok == r.status = 200 /\ Has(d, "access_token")
              /\ d.access_token # NoToken
        m == Returned(m0, "fetchToken", r, ok)
        inv == [NoCall EXCEPT
                  !.start = rq.sentAt, !.cached = rq.cached,
                  !.cachedExpire = rq.cachedExpire, !.fetches = 1,
                  !.retAt = m.now, !.responded = r.status # 0,
                  !.raced = rq.raced, !.rival = rq.rival]
    IN  IF ok
        THEN LET exp == Max(m0.api.tokenExpireTime,
                            ExpireTime(rq.sentAt, d.expires_in)) IN
             AfterToken(
                 [m EXCEPT !.api.accessToken = d.access_token,
                           !.api.tokenExpireTime = exp,
                           !.wrote = TRUE,
                           !.last = [inv EXCEPT !.state = "returned",
                                                !.value = d.access_token,
                                                !.fresh = TRUE,
                                                !.computed = exp]],
                 site, d.access_token)
        ELSE LET thrown ==
                    IF r.status = 200
                    THEN PlainError(<<"get Access Token failed: ",
                                      ErrmsgOrUnknown(d)>>)
                    ELSE AxiosError(r)
                 msg == getAccessTokenCatch(thrown)
             IN  TokenThrown(
                     [m EXCEPT !.last = [inv EXCEPT !.state = "threw",
                                                    !.error = msg]],
                     site, msg)

(* getAccessToken from its await on: the response r to the fetchToken      *)
(* request rq arrives.                                                     *)
getAccessTokenResume(m0, rq, r) ==
    LET d == r.data
        site == m0.pc
        ok == r.status = 200 /\ Has(d, "access_token")
              /\ d.access_token # NoToken
        m == Returned(m0, "fetchToken", r, ok)
        inv == [NoCall EXCEPT
                  !.start = rq.sentAt, !.cached = rq.cached,
                  !.cachedExpire = rq.cachedExpire, !.fetches = 1,
                  !.retAt = m.now, !.responded = r.status # 0,
                  !.raced = rq.raced, !.rival = rq.rival]
    IN  IF ok
        THEN LET exp == ExpireTime(rq.sentAt, d.expires_in) IN
             AfterToken(
                 [m EXCEPT !.api.accessToken = d.access_token,
                           !.api.tokenExpireTime = exp,
                           !.wrote = TRUE,
                           !.last = [inv EXCEPT !.state = "returned",
                                                !.value = d.access_token,
                                                !.fresh = TRUE,
                                                !.computed = exp]],
                 site, d.access_token)
        ELSE LET thrown ==
                    IF r.status = 200
                    THEN PlainError(<<"get Access Token failed: ",
                                      ErrmsgOrUnknown(d)>>)
                    ELSE AxiosError(r)
                 msg == getAccessTokenCatch(thrown)
             IN  TokenThrown(
                     [m EXCEPT !.last = [inv EXCEPT !.state = "threw",
                                                    !.error = msg]],
                     site, msg)

----------------------------------------------------------------------------
(* The validator (validatePublishParams, validateStatusParams): the        *)
(* required fields are there and not empty.                                *)

validatePublishParams(params) ==
    /\ ~Falsy(params.title)
    /\ ~Falsy(params.content)
    /\ ~Falsy(params.appId)
    /\ ~Falsy(params.appSecret)

validateStatusParams(params) ==
    /\ ~Falsy(params.msgId)
    /\ ~Falsy(params.appId)
    /\ ~Falsy(params.appSecret)

ValidationFailed == <<"parameter validation failed: ", "field required">>

----------------------------------------------------------------------------
(* The files a cover path may name: fs.stat's answer. *)

MaxCoverBytes == 1048576

NoFile == [exists |-> FALSE, isFile |-> FALSE, size |-> 0]

FsStat(path) ==
    CASE path = <<"cover", ".png">> ->
            [exists |-> TRUE, isFile |-> TRUE, size |-> 2048]
      [] path = <<"big", ".jpg">> ->
            [exists |-> TRUE, isFile |-> TRUE, size |-> MaxCoverBytes + 1]
      [] path = <<"covers/">> ->
            [exists |-> TRUE, isFile |-> FALSE, size |-> 4096]
      [] path = <<"notes", ".txt">> ->
            [exists |-> TRUE, isFile |-> TRUE, size |-> 2048]
      [] OTHER -> NoFile

(* The checks of uploadCoverImage on the stat result. *)
CoverFileOk(stats) ==
    stats.exists /\ stats.isFile /\ stats.size <= MaxCoverBytes

----------------------------------------------------------------------------
(* The tools, up to their first await *)

(* A new call starts from fresh locals. *)
Enter(m, params) ==
    [m EXCEPT !.req = params, !.log = <<>>, !.res = NoResult,
              !.f = NoFrame, !.last = NoCall, !.gets = 0]

(* publish with the validation result looked at only after the cover      *)
(* upload has been started.                                                *)
publishValidateLate(m, params) ==
    LET m1 == [Enter(m, params) EXCEPT !.api = NewWeChatAPI(params.appId)]
    IN  IF ~Falsy(params.coverImagePath)
        THEN getAccessToken(m1, "uploadCoverImage")
        ELSE IF ~validatePublishParams(params)
        THEN Fail(m1, ValidationFailed)
        ELSE publishStep5(m1)

(* WeChatPublisher.publish(params), to its first await.  The Markdown      *)
(* conversion between `new WeChatAPI` and the cover upload is a pure       *)
(* computation on the content and leaves the state alone.                  *)
publish(m, params) ==
    LET m0 == Enter(m, params) IN
    IF ~validatePublishParams(params)
    THEN Fail(m0, ValidationFailed)
    ELSE LET m1 == [m0 EXCEPT !.api = NewWeChatAPI(params.appId)] IN
         IF ~Falsy(params.coverImagePath)
         THEN getAccessToken(m1, "uploadCoverImage")
         ELSE publishStep5(m1)

(* query with the validation outside its try block: a rejected input is    *)
(* thrown to the caller and no response object is returned.                *)
queryValidationThrows(m, params) ==
    LET m0 == Enter(m, params) IN
    IF ~validateStatusParams(params)
    THEN Respond(m0, NoResult)
    ELSE getPublishStatus([m0 EXCEPT !.api = NewWeChatAPI(params.appId)],
                          params.msgId)

(* WeChatStatus.query(params) *)
query(m, params) ==
    LET m0 == Enter(m, params) IN
    IF ~validateStatusParams(params)
    THEN Fail(m0, ValidationFailed)
    ELSE getPublishStatus([m0 EXCEPT !.api = NewWeChatAPI(params.appId)],
                          params.msgId)

----------------------------------------------------------------------------
(* The continuations: the code from the arrival of a response to the next  *)
(* await.                                                                  *)

(* `if (x.errcode && x.errcode !== 0)` *)
ErrcodeSet(data) == Has(data, "errcode") /\ data.errcode # 0

(* uploadCoverImage after fs.stat (and fs.readFile): the checks, then the  *)
(* upload; publish swallows the errors and carries on without a cover.    *)
uploadCoverImageStat(m, stats) ==
    IF CoverFileOk(stats) THEN Send(m, "uploadMedia")
    ELSE publishStep5(m)

(* uploadCoverImage after the upload, with publish letting its error       *)
(* through instead of swallowing it.                                       *)
uploadCoverImagePropagates(m0, r) ==
    LET ok == r.status = 200 /\ ~Falsy(Field(r.data, "media_id"))
        m == Returned(m0, "uploadMedia", r, ok)
    IN  IF ok
        THEN publishStep5([m EXCEPT !.f.thumbMediaId = r.data.media_id])
        ELSE Fail(m, <<"cover image upload failed: ",
                       ErrmsgOrUnknown(r.data)>>)

(* uploadCoverImage after the upload; publish swallows its errors and      *)
(* carries on without a cover.                                             *)
uploadCoverImageResume(m0, r) ==
    LET ok == r.status = 200 /\ ~Falsy(Field(r.data, "media_id"))
        m == Returned(m0, "uploadMedia", r, ok)
    IN  IF ok
        THEN publishStep5([m EXCEPT !.f.thumbMediaId = r.data.media_id])
        ELSE publishStep5(m)

(* The catch block of publishArticle. *)
publishArticleCatch(error) ==
    Rethrow(error, "publish article failed: ",
                   "publish article request failed: ")

(* publishArticle after the draft request, sending the request once more   *)
(* when the platform did not answer.                                       *)
publishArticleDraftRetry(m0, r) ==
    LET ok == r.status = 200 /\ ~ErrcodeSet(r.data)
        m == Returned(m0, "createDraft", r, ok)
        retried == \E i \in 1..Len(m0.log) :
                      m0.log[i].op = "createDraft" /\ m0.log[i].ev = "failed"
    IN  IF r.status = 0 /\ ~retried
        THEN SendArticle(m, "createDraft", DraftThumb(m.f.thumbMediaId))
        ELSE IF r.status # 200
        THEN Fail(m, publishArticleCatch(AxiosError(r)))
        ELSE IF ErrcodeSet(r.data)
        THEN Fail(m, publishArticleCatch(
                        PlainError(<<"create draft failed: ",
                                     ErrmsgText(r.data)>>)))
        ELSE Send([m EXCEPT !.f.mediaId = Field(r.data, "media_id")],
                  "submitPublish")

(* publishArticle after the draft request, without the look at errcode. *)
publishArticleDraftUnchecked(m0, r) ==
    LET ok == r.status = 200
        m == Returned(m0, "createDraft", r, ok)
    IN  IF r.status # 200
        THEN Fail(m, publishArticleCatch(AxiosError(r)))
        ELSE Send([m EXCEPT !.f.mediaId = Field(r.data, "media_id")],
                  "submitPublish")

(* publishArticle after the draft request. *)
publishArticleDraft(m0, r) ==
    LET ok == r.status = 200 /\ ~ErrcodeSet(r.data)
        m == Returned(m0, "createDraft", r, ok)
    IN  IF r.status # 200
        THEN Fail(m, publishArticleCatch(AxiosError(r)))
        ELSE IF ErrcodeSet(r.data)
        THEN Fail(m, publishArticleCatch(
                        PlainError(<<"create draft failed: ",
                                     ErrmsgText(r.data)>>)))
        ELSE Send([m EXCEPT !.f.mediaId = Field(r.data, "media_id")],
                  "submitPublish")

(* publishArticle after the publish request, going for the status without *)
(* the pause.                                                              *)
publishArticleSubmitNoWait(m0, r) ==
    LET ok == r.status = 200 /\ ~ErrcodeSet(r.data)
        m == Returned(m0, "submitPublish", r, ok)
    IN  IF r.status # 200
        THEN Fail(m, publishArticleCatch(AxiosError(r)))
        ELSE IF ErrcodeSet(r.data)
        THEN Fail(m, publishArticleCatch(
                        PlainError(<<"publish failed: ",
                                     ErrmsgText(r.data)>>)))
        ELSE getPublishStatus(
                 [m EXCEPT !.f.publishId = Field(r.data, "publish_id"),
                           !.f.msgId = Field(r.data, "msg_id")],
                 Field(r.data, "publish_id"))

(* publishArticle after the publish request, taking every answered       *)
(* response for a success.                                                 *)
publishArticleSubmitUnchecked(m0, r) ==
    LET ok == r.status = 200 /\ ~ErrcodeSet(r.data)
        m == Returned(m0, "submitPublish", r, ok)
    IN  IF r.status # 200
        THEN Fail(m, publishArticleCatch(AxiosError(r)))
        ELSE [m EXCEPT !.f.publishId = Field(r.data, "publish_id"),
                       !.f.msgId = Field(r.data, "msg_id"),
                       !.pc = "settle",
                       !.log = Append(@, Event("settle", "sent"))]

(* publishArticle after the publish request: then the 3 s pause. *)
publishArticleSubmit(m0, r) ==
    LET ok == r.status = 200 /\ ~ErrcodeSet(r.data)
        m == Returned(m0, "submitPublish", r, ok)
    IN  IF r.status # 200
        THEN Fail(m, publishArticleCatch(AxiosError(r)))
        ELSE IF ErrcodeSet(r.data)
        THEN Fail(m, publishArticleCatch(
                        PlainError(<<"publish failed: ",
                                     ErrmsgText(r.data)>>)))
        ELSE [m EXCEPT !.f.publishId = Field(r.data, "publish_id"),
                       !.f.msgId = Field(r.data, "msg_id"),
                       !.pc = "settle",
                       !.log = Append(@, Event("settle", "sent"))]

(* publishArticle after the pause: the status query for the URL. *)
publishArticleSettled(m) ==
    getPublishStatus([m EXCEPT !.now = @ + SettleMs,
                               !.log = Append(@, Event("settle", "ok"))],
                     m.f.publishId)

(* The catch block of getPublishStatus. *)
getPublishStatusCatch(error) ==
    Rethrow(error, "query status failed: ", "status query request failed: ")

(* getPublishStatus answering from the status data of an earlier query    *)
(* instead of the response just received.                                  *)
getPublishStatusResumeStale(m0, r) ==
    LET ok == r.status = 200 /\ Has(r.data, "errcode")
              /\ r.data.errcode = 0
        m == Returned(m0, "fetchPublishStatus", r, ok)
    IN  IF ok
        THEN AfterStatus(m, [errcode |-> 0, errmsg |-> "ok",
                             publish_status |-> 0])
        ELSE StatusThrown(m, getPublishStatusCatch(AxiosError(r)))

(* getPublishStatus after its request: success only on errcode 0. *)
getPublishStatusResume(m0, r) ==
    LET ok == r.status = 200 /\ Has(r.data, "errcode")
              /\ r.data.errcode = 0
        m == Returned(m0, "fetchPublishStatus", r, ok)
    IN  IF r.status # 200
        THEN StatusThrown(m, getPublishStatusCatch(AxiosError(r)))
        ELSE IF ok
        THEN AfterStatus(m, r.data)
        ELSE StatusThrown(m, getPublishStatusCatch(
                                PlainError(<<"query status failed: ",
                                             ErrmsgText(r.data)>>)))

(* The catch block of createNewsMedia. *)
createNewsMediaCatch(error) ==
    Rethrow(error, "create news media failed: ",
                   "create news media request failed: ")

(* createNewsMedia after its request: back in previewArticle, whose next   *)
(* await is the token for the preview request.                             *)
createNewsMediaResume(m0, r) ==
    LET ok == r.status = 200 /\ ~Falsy(Field(r.data, "media_id"))
        m == Returned(m0, "createPreviewMedia", r, ok)
    IN  IF ok
        THEN getAccessToken([m EXCEPT !.f.mediaId = r.data.media_id],
                            "previewArticle")
        ELSE LET thrown ==
                    IF r.status = 200
                    THEN PlainError(<<"create news media failed: ",
                                      ErrmsgOrUnknown(r.data)>>)
                    ELSE AxiosError(r)
             IN  Fail(m, previewArticleCatch(
                            PlainError(createNewsMediaCatch(thrown))))

(* previewArticle testing the response the way createDraft's is tested:   *)
(* `if (errcode && errcode !== 0)` fails, everything else succeeds.        *)
previewArticleResumeLoose(m0, r) ==
    LET ok == r.status = 200 /\ ~ErrcodeSet(r.data)
        m == Returned(m0, "sendPreview", r, ok)
    IN  IF ok
        THEN Succeed(m, [NoResult EXCEPT
                           !.msgId = Field(r.data, "msg_id"),
                           !.mediaId = m.f.mediaId])
        ELSE Fail(m, previewArticleCatch(AxiosError(r)))

(* previewArticle sending the preview request once more after a timeout. *)
previewArticleResumeRetry(m0, r) ==
    LET ok == r.status = 200 /\ Has(r.data, "errcode")
              /\ r.data.errcode = 0
        m == Returned(m0, "sendPreview", r, ok)
        retried == \E i \in 1..Len(m0.log) :
                      m0.log[i].op = "sendPreview" /\ m0.log[i].ev = "failed"
    IN  IF r.status = 0 /\ ~retried
        THEN Send(m, "sendPreview")
        ELSE IF ok
        THEN Succeed(m, [NoResult EXCEPT
                           !.msgId = Field(r.data, "msg_id"),
                           !.mediaId = m.f.mediaId])
        ELSE Fail(m, previewArticleCatch(AxiosError(r)))

(* previewArticle after the preview request: success only on errcode 0. *)
previewArticleResume(m0, r) ==
    LET ok == r.status = 200 /\ Has(r.data, "errcode")
              /\ r.data.errcode = 0
        m == Returned(m0, "sendPreview", r, ok)
    IN  IF r.status # 200
        THEN Fail(m, previewArticleCatch(AxiosError(r)))
        ELSE IF ok
        THEN Succeed(m, [NoResult EXCEPT
                           !.msgId = Field(r.data, "msg_id"),
                           !.mediaId = m.f.mediaId])
        ELSE Fail(m, previewArticleCatch(
                        PlainError(<<"article preview failed: ",
                                     ErrmsgText(r.data)>>)))

----------------------------------------------------------------------------
(* The platform's answers *)

MediaIds == {<<"media_1">>}

UploadResponses ==
    { Ok([media_id |-> id, url |-> <<"http://mmbiz.qpic.cn/1">>]) :
         id \in MediaIds }
    \cup { Ok([errcode |-> 40004, errmsg |-> "invalid media type"]),
           HttpError, NoResponse }

DraftResponses ==
    { Ok([media_id |-> id]) : id \in MediaIds }
    \cup { Ok([errcode |-> 45009, errmsg |-> "reach max api daily quota"]),
           Ok([errcode |-> 0, errmsg |-> "ok"]),
           HttpError, NoResponse }

SubmitResponses ==
    { Ok([errcode |-> 0, errmsg |-> "ok", publish_id |-> <<"2247483647">>,
          msg_id |-> <<"1000000001">>]),
      Ok([errcode |-> 0, errmsg |-> "ok", publish_id |-> <<"test_", "77">>]),
      Ok([errcode |-> 53503, errmsg |-> "draft check failed"]),
      Ok([errmsg |-> "ok"]),
      HttpError, NoResponse }

StatusResponses ==
    { Ok([errcode |-> 0, errmsg |-> "ok", publish_status |-> s,
          article_id |-> <<"a1">>,
          article_detail |->
             [item |-> << [url |-> <<"https://mp.weixin.qq.com/s/", "real">>]
                       >>]]) : s \in {0, 1} }
    \cup
    { Ok([errcode |-> 0, errmsg |-> "ok", publish_status |-> 1,
          article_detail |-> [item |-> <<>>]]),
      Ok([errcode |-> 0, errmsg |-> "ok", publish_status |-> 2]),
      Ok([errcode |-> 0, errmsg |-> "ok", publish_status |-> 0,
          article_detail |-> [item |-> << [article_id |-> <<"a1">>] >>]]),
      Ok([errcode |-> 40001,
          errmsg |-> "invalid credential, access_token is invalid"]),
      Ok([publish_status |-> 0]),
      HttpError, NoResponse }

NewsMediaResponses ==
    { Ok([media_id |-> id]) : id \in MediaIds }
    \cup { Ok([errcode |-> 40164,
               errmsg |-> "invalid ip 10.0.0.1, not in whitelist"]),
           Ok([errcode |-> 40007, errmsg |-> "invalid media_id",
               media_id |-> <<"media_1">>]),
           HttpError, NoResponse }

PreviewResponses ==
    { Ok([errcode |-> 0, errmsg |-> "ok", msg_id |-> <<"1000000002">>]),
      Ok([errcode |-> 43004, errmsg |-> "require subscribe"]),
      Ok([msg_id |-> <<"1000000002">>]),
      HttpError, NoResponse }

----------------------------------------------------------------------------
(* The calls the tools may receive *)

IsTestApp(params) == StartsWith(params.appId, "test_")

AllPublishParams ==
    [tool : {"publish"},
     title : {<<"Hello">>, <<>>},
     content : {<<"# Hello">>},
     appId : {<<"wx", "1234567890abcdef">>, <<"test_", "app">>},
     appSecret : {<<"secret">>, <<>>},
     coverImagePath : {Undefined, <<"cover", ".png">>, <<"big", ".jpg">>,
                       <<"missing", ".png">>, <<"covers/">>,
                       <<"notes", ".txt">>},
     previewMode : BOOLEAN,
     previewOpenId : {Undefined, <<"o_real">>, <<"test_", "user">>},
     msgId : {Undefined}]

(* A publish with real credentials that is no preview. *)
PlainPublish(params) ==
    /\ ~params.previewMode /\ params.previewOpenId = Undefined
    /\ ~IsTestApp(params)

(* Every request with its required fields, and those that lack the title   *)
(* or the secret (these without a preview); a directory and a text file    *)
(* are named as cover only by a plain publish with its required fields.    *)
PublishParams ==
    { params \in AllPublishParams :
         IF params.coverImagePath \in {<<"covers/">>, <<"notes", ".txt">>}
         THEN validatePublishParams(params) /\ PlainPublish(params)
         ELSE \/ validatePublishParams(params)
              \/ /\ PlainPublish(params)
                 /\ ~(Falsy(params.title) /\ Falsy(params.appSecret)) }

StatusParams ==
    [tool : {"status"},
     title : {<<>>}, content : {<<>>},
     appId : {<<"wx", "1234567890abcdef">>, <<"test_", "app">>},
     appSecret : {<<"secret">>},
     coverImagePath : {Undefined},
     previewMode : {FALSE},
     previewOpenId : {Undefined},
     msgId : {<<"2247483647">>, <<"test_", "77">>, <<>>}]

----------------------------------------------------------------------------
(* Actions *)

(* The request behind the await p is at has its response delivered. *)
Awaiting(p, op) == net[p].op = op

PublishCall(p) ==
    /\ pc[p] = "idle" /\ calls < MaxCalls
    /\ \E params \in PublishParams :
          Commit(p, publish(Machine(p), params))

StatusCall(p) ==
    /\ pc[p] = "idle" /\ calls < MaxCalls
    /\ \E params \in StatusParams, stat \in MockStats :
          Commit(p, query([Machine(p) EXCEPT !.rnd = stat], params))

FetchTokenResponse(p) ==
    /\ Awaiting(p, "fetchToken")
    /\ \E r \in TokenResponses(net[p].id, net[p].sentAt) :
          Commit(p, getAccessTokenResume(Machine(p), net[p], r))

FsStatDone(p) ==
    /\ pc[p] = "fs.stat"
    /\ Commit(p, uploadCoverImageStat(Machine(p),
                                      FsStat(req[p].coverImagePath)))

UploadResponse(p) ==
    /\ Awaiting(p, "uploadMedia")
    /\ \E r \in UploadResponses :
          Commit(p, uploadCoverImageResume(Machine(p), r))

DraftResponse(p) ==
    /\ Awaiting(p, "createDraft")
    /\ \E r \in DraftResponses :
          Commit(p, publishArticleDraft(Machine(p), r))

SubmitResponse(p) ==
    /\ Awaiting(p, "submitPublish")
    /\ \E r \in SubmitResponses :
          Commit(p, publishArticleSubmit(Machine(p), r))

SettleDone(p) ==
    /\ pc[p] = "settle"
    /\ \E stat \in MockStats :
          Commit(p, publishArticleSettled([Machine(p) EXCEPT !.rnd = stat]))

StatusResponse(p) ==
    /\ Awaiting(p, "fetchPublishStatus")
    /\ \E r \in StatusResponses :
          Commit(p, getPublishStatusResume(Machine(p), r))

NewsMediaResponse(p) ==
    /\ Awaiting(p, "createPreviewMedia")
    /\ \E r \in NewsMediaResponses :
          Commit(p, createNewsMediaResume(Machine(p), r))

PreviewResponse(p) ==
    /\ Awaiting(p, "sendPreview")
    /\ \E r \in PreviewResponses :
          Commit(p, previewArticleResume(Machine(p), r))

(* The tools run in one server process, one call after the other. *)
Server == 1

Init ==
    /\ now = 0
    /\ api = [i \in Procs |-> NoInstance]
    /\ inst = [p \in Procs |-> p]
    /\ pc = [p \in Procs |-> "idle"]
    /\ req = [p \in Procs |-> NoParams]
    /\ frame = [p \in Procs |-> NoFrame]
    /\ net = [p \in Procs |-> NoReq]
    /\ log = [p \in Procs |-> <<>>]
    /\ result = [p \in Procs |-> NoResult]
    /\ calls = 0
    /\ prev = NoPrev
    /\ last = NoCall
    /\ gets = 0
    /\ content = <<>>
    /\ digest = <<>>
    /\ applied = 0
    /\ status = 0
    /\ statusText = <<>>
    /\ request = NoRequest
    /\ logged = <<>>
    /\ invoked = <<>>
    /\ reply = NoReply

Next ==
    \/ PublishCall(Server)
    \/ StatusCall(Server)
    \/ FetchTokenResponse(Server)
    \/ FsStatDone(Server)
    \/ UploadResponse(Server)
    \/ DraftResponse(Server)
    \/ SubmitResponse(Server)
    \/ SettleDone(Server)
    \/ StatusResponse(Server)
    \/ NewsMediaResponse(Server)
    \/ PreviewResponse(Server)

Spec == Init /\ [][Next]_vars

(* Every request in flight is answered or runs into its timeout (axios is  *)
(* given a timeout for each of the seven requests), fs.stat returns and    *)
(* the settle timer fires.                                                 *)
Fairness ==
    /\ WF_vars(FetchTokenResponse(Server))
    /\ WF_vars(FsStatDone(Server))
    /\ WF_vars(UploadResponse(Server))
    /\ WF_vars(DraftResponse(Server))
    /\ WF_vars(SubmitResponse(Server))
    /\ WF_vars(SettleDone(Server))
    /\ WF_vars(StatusResponse(Server))
    /\ WF_vars(NewsMediaResponse(Server))
    /\ WF_vars(PreviewResponse(Server))

(* One tool call, from its arrival to its response. *)
NextLive ==
    \/ calls = 0 /\ PublishCall(Server)
    \/ calls = 0 /\ StatusCall(Server)
    \/ FetchTokenResponse(Server)
    \/ FsStatDone(Server)
    \/ UploadResponse(Server)
    \/ DraftResponse(Server)
    \/ SubmitResponse(Server)
    \/ SettleDone(Server)
    \/ StatusResponse(Server)
    \/ NewsMediaResponse(Server)
    \/ PreviewResponse(Server)

SpecLive == Init /\ [][NextLive]_vars /\ Fairness

----------------------------------------------------------------------------
(* The token cache on its own: the processes call getAccessToken on one    *)
(* shared WeChatAPI instance while the clock runs.                         *)

(* The clock advances, second by second. *)
Tick ==
    /\ now < MaxTicks * MsPerSec
    /\ now' = now + MsPerSec
    /\ UNCHANGED <<api, inst, pc, req, frame, net, log, result, calls, prev,
                   last, gets, content, digest, applied, status, statusText,
                   request, logged, invoked, reply>>

TokenCall(p) ==
    /\ pc[p] = "idle" /\ gets < MaxGets
    /\ Commit(p, getAccessToken(Machine(p), "direct"))

InitToken ==
    /\ now = 0
    /\ api = [i \in Procs |-> NewWeChatAPI(<<"wx", "1234567890abcdef">>)]
    /\ inst = [p \in Procs |-> 1]
    /\ pc = [p \in Procs |-> "idle"]
    /\ req = [p \in Procs |-> NoParams]
    /\ frame = [p \in Procs |-> NoFrame]
    /\ net = [p \in Procs |-> NoReq]
    /\ log = [p \in Procs |-> <<>>]
    /\ result = [p \in Procs |-> NoResult]
    /\ calls = 0
    /\ prev = NoPrev
    /\ last = NoCall
    /\ gets = 0
    /\ content = <<>>
    /\ digest = <<>>
    /\ applied = 0
    /\ status = 0
    /\ statusText = <<>>
    /\ request = NoRequest
    /\ logged = <<>>
    /\ invoked = <<>>
    /\ reply = NoReply

NextToken ==
    \/ Tick
    \/ \E p \in Procs : TokenCall(p)
    \/ \E p \in Procs : FetchTokenResponse(p)

SpecToken == InitToken /\ [][NextToken]_vars

----------------------------------------------------------------------------
(* WeChatAPI.extractDigest, on sequences of characters *)

DigestLimit == 60

Ellipsis == <<".", ".", ".">>

IsSpace(c) == c \in {" ", "\n", "\t"}

(* The letters of the two patterns, for the i flag of the style regex. *)
Lower(c) ==
    CASE c = "S" -> "s" [] c = "T" -> "t" [] c = "Y" -> "y"
      [] c = "L" -> "l" [] c = "E" -> "e" [] OTHER -> c

StyleOpen == <<"<", "s", "t", "y", "l", "e">>
StyleClose == <<"<", "/", "s", "t", "y", "l", "e", ">">>

(* s has pat at position i, letters compared without case. *)
StartsAt(s, i, pat) ==
    /\ i + Len(pat) - 1 <= Len(s)
    /\ \A k \in 1..Len(pat) : Lower(s[i + k - 1]) = pat[k]

(* The least position from i on that satisfies the condition, 0 if none. *)
FirstGt(s, i) ==
    LET hits == { j \in i..Len(s) : s[j] = ">" } IN
    IF hits = {} THEN 0 ELSE CHOOSE j \in hits : \A h \in hits : j <= h

FirstClose(s, i) ==
    LET hits == { j \in i..Len(s) : StartsAt(s, j, StyleClose) } IN
    IF hits = {} THEN 0 ELSE CHOOSE j \in hits : \A h \in hits : j <= h

FirstNonSpace(s, i) ==
    LET hits == { j \in i..Len(s) : ~IsSpace(s[j]) } IN
    IF hits = {} THEN Len(s) + 1
    ELSE CHOOSE j \in hits : \A h \in hits : j <= h

(* The first replace: every style element, from position i on. *)
RECURSIVE StripStyle(_, _)
StripStyle(s, i) ==
    IF i > Len(s) THEN <<>>
    ELSE LET open == IF StartsAt(s, i, StyleOpen)
                     THEN FirstGt(s, i + Len(StyleOpen)) ELSE 0
             close == IF open > 0 THEN FirstClose(s, open + 1) ELSE 0
         IN  IF close > 0
             THEN StripStyle(s, close + Len(StyleClose))
             ELSE <<s[i]>> \o StripStyle(s, i + 1)

(* The second replace: every tag, from position i on. *)
RECURSIVE StripTags(_, _)
StripTags(s, i) ==
    IF i > Len(s) THEN <<>>
    ELSE LET gt == IF s[i] = "<" THEN FirstGt(s, i + 1) ELSE 0 IN
         IF gt > 0 THEN StripTags(s, gt + 1)
         ELSE <<s[i]>> \o StripTags(s, i + 1)

(* The third replace: the Markdown marks. *)
(* The grave accent, which a string of this notation cannot hold. *)
Grave == "grave"

IsMark(c) == c \in {"#", "*", Grave}

StripMarks(s) == SelectSeq(s, LAMBDA c : ~IsMark(c))

(* The fourth replace: a run of white space becomes one blank. *)
RECURSIVE CollapseSpace(_, _)
CollapseSpace(s, i) ==
    IF i > Len(s) THEN <<>>
    ELSE IF IsSpace(s[i])
    THEN <<" ">> \o CollapseSpace(s, FirstNonSpace(s, i))
    ELSE <<s[i]>> \o CollapseSpace(s, i + 1)

(* trim *)
Trim(s) ==
    LET first == FirstNonSpace(s, 1)
        kept == { j \in 1..Len(s) : ~IsSpace(s[j]) }
    IN  IF kept = {} THEN <<>>
        ELSE SubSeq(s, first, CHOOSE j \in kept : \A h \in kept : h <= j)

(* Longer than the limit: the first 60 characters and the ellipsis. *)
Truncate(s) ==
    IF Len(s) > DigestLimit THEN SubSeq(s, 1, DigestLimit) \o Ellipsis
    ELSE s

(* The marks removed after the white space is collapsed, not before. *)
extractDigestMarksLast(s) ==
    Truncate(Trim(StripMarks(CollapseSpace(StripTags(StripStyle(s, 1), 1),
                                           1))))

extractDigest(s) ==
    Truncate(Trim(CollapseSpace(StripMarks(StripTags(StripStyle(s, 1), 1)),
                                1)))

(* The contents to digest: a run of letters between two pieces of markup   *)
(* or text.                                                                *)
MaxFill == 61

Fill(n) == [i \in 1..n |-> "a"]

Pieces ==
    { <<>>, <<"<", "b", ">">>, <<"#", " ">>, <<"*", Grave>>, <<" ", "\n", " ">>,
      <<"<", "S", "t", "y", "l", "e", ">", "x", "<", "/", "s", "t", "y",
        "l", "e", ">">>,
      <<"a", "<">>, <<">">>, <<"<", "<", "b", ">">>, <<"b", ">">>,
      <<"b", " ", "*", " ">>, <<"<", "s", "t", "y", "l", "e", ">">>,
      <<"<", "/", "S", "T", "Y", "L", "E", ">">> }

Contents ==
    { pre \o Fill(n) \o post :
        pre \in Pieces, post \in Pieces,
        n \in {0, 1} \cup ((MaxFill - 4)..MaxFill) }

(* extractDigest(content), then extractDigest of what it returned. *)
ExtractDigest ==
    /\ applied = 0
    /\ digest' = extractDigest(content)
    /\ applied' = 1
    /\ UNCHANGED <<now, api, inst, pc, req, frame, net, log, result, calls,
                   prev, last, gets, content, status, statusText,
                   request, logged, invoked, reply>>

ExtractDigestAgain ==
    /\ applied = 1
    /\ digest' = extractDigest(digest)
    /\ applied' = 2
    /\ UNCHANGED <<now, api, inst, pc, req, frame, net, log, result, calls,
                   prev, last, gets, content, status, statusText,
                   request, logged, invoked, reply>>

InitDigest ==
    /\ now = 0
    /\ api = [i \in Procs |-> NoInstance]
    /\ inst = [p \in Procs |-> p]
    /\ pc = [p \in Procs |-> "idle"]
    /\ req = [p \in Procs |-> NoParams]
    /\ frame = [p \in Procs |-> NoFrame]
    /\ net = [p \in Procs |-> NoReq]
    /\ log = [p \in Procs |-> <<>>]
    /\ result = [p \in Procs |-> NoResult]
    /\ calls = 0
    /\ prev = NoPrev
    /\ last = NoCall
    /\ gets = 0
    /\ content \in Contents
    /\ digest = <<>>
    /\ applied = 0
    /\ status = 0
    /\ statusText = <<>>
    /\ request = NoRequest
    /\ logged = <<>>
    /\ invoked = <<>>
    /\ reply = NoReply

NextDigest ==
    \/ ExtractDigest
    \/ ExtractDigestAgain

SpecDigest == InitDigest /\ [][NextDigest]_vars

----------------------------------------------------------------------------
(* WeChatStatus.getStatusText on its own *)

MaxStatusCode == 99

StatusCodes == (-1)..MaxStatusCode

GetStatusText ==
    /\ applied = 0
    /\ statusText' = getStatusText(status)
    /\ applied' = 1
    /\ UNCHANGED <<now, api, inst, pc, req, frame, net, log, result, calls,
                   prev, last, gets, content, digest, status,
                   request, logged, invoked, reply>>

InitStatusText ==
    /\ now = 0
    /\ api = [i \in Procs |-> NoInstance]
    /\ inst = [p \in Procs |-> p]
    /\ pc = [p \in Procs |-> "idle"]
    /\ req = [p \in Procs |-> NoParams]
    /\ frame = [p \in Procs |-> NoFrame]
    /\ net = [p \in Procs |-> NoReq]
    /\ log = [p \in Procs |-> <<>>]
    /\ result = [p \in Procs |-> NoResult]
    /\ calls = 0
    /\ prev = NoPrev
    /\ last = NoCall
    /\ gets = 0
    /\ content = <<>>
    /\ digest = <<>>
    /\ applied = 0
    /\ status \in StatusCodes
    /\ statusText = <<>>
    /\ request = NoRequest
    /\ logged = <<>>
    /\ invoked = <<>>
    /\ reply = NoReply

NextStatusText == GetStatusText

SpecStatusText == InitStatusText /\ [][NextStatusText]_vars


----------------------------------------------------------------------------
(* The tools/call handler of the MCP server and Logger.sanitizeParams *)

sensitiveKeys == {"appSecret", "password", "token", "secret"}

Mask == <<"***">>

(* logger.sanitizeParams(params): a shallow copy of params in which every  *)
(* sensitive key with a truthy value holds the mask.  The result is the    *)
(* object returned together with the object passed in as the call leaves   *)
(* it.                                                                     *)
sanitizeParamsInPlace(params) ==
    LET sanitized == [k \in DOMAIN params |->
                        IF k \in sensitiveKeys /\ ~Falsy(params[k])
                        THEN Mask ELSE params[k]]
    IN  [sanitized |-> sanitized, params |-> sanitized]

sanitizeParams(params) ==
    LET sanitized == [k \in DOMAIN params |->
                        IF k \in sensitiveKeys /\ ~Falsy(params[k])
                        THEN Mask ELSE params[k]]
    IN  [sanitized |-> sanitized, params |-> params]

PublishTool == "wechat_publish_article"
StatusTool == "wechat_query_status"

(* A line written to the logger. *)
LogLine(level, text, meta) == [level |-> level, text |-> text, meta |-> meta]

(* The catch block of the handler that throws the error on to its caller. *)
toolsCallCatchRethrows(h, name, message) ==
    [h EXCEPT !.logged = Append(@, LogLine("error",
                                           <<"Tool call failed: ", name>>,
                                           [error |-> message])),
              !.reply = [NoReply EXCEPT !.done = TRUE, !.thrown = TRUE]]

(* The catch block of the handler: the error is logged and an error        *)
(* response is returned.                                                   *)
toolsCallCatch(h, name, message) ==
    [h EXCEPT !.logged = Append(@, LogLine("error",
                                           <<"Tool call failed: ", name>>,
                                           [error |-> message])),
              !.reply = [done |-> TRUE, thrown |-> FALSE, isError |-> TRUE,
                         text |-> <<"tool call failed: ">> \o message]]

(* The handler from the arrival of the request to its await (or, for a     *)
(* name it does not know, to its return): what it has logged, whom it has  *)
(* called with which object, how it has answered, and the arguments        *)
(* object of the request as the step leaves it.                            *)
toolsCallHandler(params) ==
    LET name == params.name
        args == params.arguments
        s == sanitizeParams(args)
        h == [arguments |-> s.params,
              logged |-> <<LogLine("info", <<"Tool call: ", name>>,
                                   [args |-> s.sanitized])>>,
              invoked |-> <<>>,
              reply |-> NoReply]
    IN  CASE name = PublishTool ->
               [h EXCEPT !.invoked = <<[tool |-> "WeChatPublisher.publish",
                                        params |-> s.params]>>]
          [] name = StatusTool ->
               [h EXCEPT !.invoked = <<[tool |-> "WeChatStatus.query",
                                        params |-> s.params]>>]
          [] OTHER -> toolsCallCatch(h, name, <<"Unknown tool: ", name>>)

(* What publish and query resolve with: a response object with a text,     *)
(* flagged as an error or not.                                             *)
ToolResponses(tool) ==
    { [done |-> TRUE, thrown |-> FALSE, isError |-> FALSE,
       text |-> <<tool, ": ok">>],
      [done |-> TRUE, thrown |-> FALSE, isError |-> TRUE,
       text |-> IF tool = "WeChatPublisher.publish"
                THEN <<"publish failed: ", "invalid appid">>
                ELSE <<"status query failed: ", "invalid appid">>] }

(* The names and the arguments of the requests. *)
ToolNames ==
    {PublishTool, StatusTool, "wechat_publish", "WECHAT_QUERY_STATUS", ""}

Absent == <<"<absent>">>

ArgsOf(appSecret, token, password, secret, nested) ==
    LET keys == {"title"}
                \cup (IF appSecret # Absent THEN {"appSecret"} ELSE {})
                \cup (IF token # Absent THEN {"token"} ELSE {})
                \cup (IF password # Absent THEN {"password"} ELSE {})
                \cup (IF secret # Absent THEN {"secret"} ELSE {})
                \cup (IF nested THEN {"config"} ELSE {})
    IN  [k \in keys |->
            CASE k = "title" -> <<"T">>
              [] k = "appSecret" -> appSecret
              [] k = "token" -> token
              [] k = "password" -> password
              [] k = "secret" -> secret
              [] k = "config" -> [secret |-> <<"inner">>]]

Arguments ==
    { ArgsOf(a, t, p, s, c) :
        a \in {Absent, <<>>, Null, <<"s3cr3t">>},
        t \in {Absent, <<"tok">>},
        p \in {Absent, <<"pw">>},
        s \in {Absent, <<>>, <<"sec">>},
        c \in BOOLEAN }

Requests == { [name |-> n, arguments |-> a] : n \in ToolNames, a \in Arguments }

(* The request arrives: the handler logs it, and calls the tool it names   *)
(* or answers that it does not know the name.                              *)
ToolsCall ==
    /\ logged = <<>>
    /\ LET h == toolsCallHandler(request) IN
          /\ request' = [request EXCEPT !.arguments = h.arguments]
          /\ logged' = h.logged
          /\ invoked' = h.invoked
          /\ reply' = h.reply
    /\ UNCHANGED <<now, api, inst, pc, req, frame, net, log, result, calls,
                   prev, last, gets, content, digest, applied, status,
                   statusText>>

(* The tool awaited resolves and the handler returns its response. *)
ToolReturn ==
    /\ invoked # <<>> /\ ~reply.done
    /\ \E r \in ToolResponses(invoked[1].tool) : reply' = r
    /\ UNCHANGED <<now, api, inst, pc, req, frame, net, log, result, calls,
                   prev, last, gets, content, digest, applied, status,
                   statusText, request, logged, invoked>>

InitHandler ==
    /\ now = 0
    /\ api = [i \in Procs |-> NoInstance]
    /\ inst = [p \in Procs |-> p]
    /\ pc = [p \in Procs |-> "idle"]
    /\ req = [p \in Procs |-> NoParams]
    /\ frame = [p \in Procs |-> NoFrame]
    /\ net = [p \in Procs |-> NoReq]
    /\ log = [p \in Procs |-> <<>>]
    /\ result = [p \in Procs |-> NoResult]
    /\ calls = 0
    /\ prev = NoPrev
    /\ last = NoCall
    /\ gets = 0
    /\ content = <<>>
    /\ digest = <<>>
    /\ applied = 0
    /\ status = 0
    /\ statusText = <<>>
    /\ request \in Requests
    /\ logged = <<>>
    /\ invoked = <<>>
    /\ reply = NoReply

NextHandler ==
    \/ ToolsCall
    \/ ToolReturn

SpecHandler == InitHandler /\ [][NextHandler]_vars
----------------------------------------------------------------------------
(* Properties of the token cache (SpecToken) *)

(* The cache held a token and was not yet expired when the invocation      *)
(* recorded in `c` started. *)
ValidAtStart(c) == c.cached # NoToken /\ c.start < c.cachedExpire

(* C1: a getAccessToken call made while a token is cached and              *)
(* now < tokenExpireTime returns that cached token and sends no fetchToken  *)
(* request; a call made at or after tokenExpireTime (or with nothing        *)
(* cached) sends exactly one.  No refresh is ever in flight for a call      *)
(* that found the cache valid.                                              *)
C1_TokenReuse ==
    /\ last.state # "none" =>
         IF ValidAtStart(last)
         THEN last.state = "returned" /\ last.value = last.cached
              /\ last.fetches = 0 /\ ~last.fresh
         ELSE last.fetches = 1
    /\ \A p \in Procs :
         net[p].op = "fetchToken" =>
            ~(net[p].cached # NoToken /\ net[p].sentAt < net[p].cachedExpire)

(* A call made exactly at tokenExpireTime, with a token cached, has sent   *)
(* one request and returned the new token.                                 *)
C1_Witness ==
    /\ last.state = "returned" /\ last.fresh
    /\ last.cached # NoToken /\ last.start = last.cachedExpire
    /\ last.fetches = 1 /\ last.value # last.cached

(* C2: every token getAccessToken returns, cached or fresh, is returned at *)
(* least 60 seconds before the platform lets it expire.                    *)
C2_SafetyMargin ==
    last.state = "returned" =>
        last.retAt + SafetyMarginSec * MsPerSec <= last.value.expiresAt

(* C3: when a refresh completes after a refresh that overlapped it has     *)
(* already written the cache, the stored tokenExpireTime is the later of   *)
(* the two computed expiries.                                              *)
C3_LaterExpiryWins ==
    (last.state = "returned" /\ last.fresh /\ last.raced) =>
        api[1].tokenExpireTime = Max(last.computed, last.rival)

(* C4: at most one fetchToken request of a WeChatAPI instance is in flight *)
(* at any time.                                                            *)
C4_RefreshSerialized ==
    \A p, q \in Procs :
        (net[p].op = "fetchToken" /\ net[q].op = "fetchToken"
         /\ inst[p] = inst[q]) => p = q

(* The kind of a token error: the prefix its catch block gave it. *)
ErrorKind(msg) ==
    IF Head(msg) = "Access Token network request failed: " THEN "network"
    ELSE "platform"

(* C6: a refresh that fails after a platform response was received raises *)
(* an authentication/platform error, and one that fails without any         *)
(* response raises a network error.                                        *)
C6_ErrorKindByResponse ==
    last.state = "threw" =>
        ErrorKind(last.error) = IF last.responded THEN "platform"
                                ELSE "network"


----------------------------------------------------------------------------
(* Properties of the tools (Spec) *)

(* The request the server is serving, or has served last. *)
Served == req[Server]

(* That call is over: its response is in result[Server]. *)
Responded == pc[Server] = "idle" /\ result[Server].done

IsTest(str) == StartsWith(str, "test_")

AcceptedPublish(r) == r.tool = "publish" /\ validatePublishParams(r)

(* C5: a token obtained during one publish or status call is reused by a   *)
(* later call with the same credentials made before its expiry: no call     *)
(* sends a fetchToken request at a time at which the cache an earlier call  *)
(* left behind for the same appId was still valid.                          *)
C5_TokenReusedAcrossCalls ==
    net[Server].op = "fetchToken" =>
        ~(/\ prev.cached
          /\ prev.appId = Served.appId
          /\ net[Server].sentAt < prev.tokenExpireTime)

(* C7: an accepted non-preview publish with a test_ appId issues no remote  *)
(* operation and ends in a success result with fabricated publishId,        *)
(* msgId, mediaId and articleUrl, with or without a coverImagePath.         *)
C7_TestPublishNoNetwork ==
    (AcceptedPublish(Served) /\ ~Served.previewMode /\ IsTest(Served.appId))
    => /\ log[Server] = <<>>
       /\ net[Server] = NoReq
       /\ Responded
       /\ result[Server].success
       /\ ~Falsy(result[Server].publishId)
       /\ ~Falsy(result[Server].msgId)
       /\ ~Falsy(result[Server].mediaId)
       /\ ~Falsy(result[Server].articleUrl)

(* C8: an accepted preview-mode publish to a recipient, in which the appId  *)
(* or the recipient carries the test_ prefix, issues no remote operation    *)
(* and ends in a success result.                                            *)
C8_TestPreviewNoNetwork ==
    (/\ AcceptedPublish(Served) /\ Served.previewMode
     /\ ~Falsy(Served.previewOpenId)
     /\ (IsTest(Served.appId) \/ IsTest(Served.previewOpenId)))
    => /\ log[Server] = <<>>
       /\ net[Server] = NoReq
       /\ Responded
       /\ result[Server].success

(* C9: an accepted publish with previewMode = true and no previewOpenId     *)
(* ends in an error result and has issued no remote operation, with or      *)
(* without a coverImagePath.                                                *)
C9_PreviewNeedsRecipient ==
    (/\ AcceptedPublish(Served) /\ Served.previewMode
     /\ Falsy(Served.previewOpenId))
    => /\ log[Server] = <<>>
       /\ net[Server] = NoReq
       /\ Responded => result[Server].isError

(* C10: when the validator rejects a publish request (or a status request)  *)
(* the call ends at once in an error result: no getAccessToken invocation,  *)
(* no request in flight, no remote operation issued.                        *)
C10_RejectedFailsFast ==
    (\/ Served.tool = "publish" /\ ~validatePublishParams(Served)
     \/ Served.tool = "status" /\ ~validateStatusParams(Served))
    => /\ Responded
       /\ result[Server].isError /\ ~result[Server].success
       /\ Head(result[Server].error) \in {"publish failed: ",
                                           "status query failed: "}
       /\ log[Server] = <<>>
       /\ net[Server] = NoReq
       /\ last = NoCall

(* A rejected publish request that names a cover image has been answered   *)
(* after an earlier call had left a token behind.                          *)
C10_Witness ==
    /\ Served.tool = "publish" /\ ~validatePublishParams(Served)
    /\ ~Falsy(Served.coverImagePath)
    /\ Responded /\ result[Server].isError
    /\ calls > 1 /\ prev.cached


----------------------------------------------------------------------------
(* Properties of one publish call (Spec) *)

Log == log[Server]

CoverGiven(r) == ~Falsy(r.coverImagePath)

(* The log holds an entry of this operation with this outcome. *)
Logged(op, ev) == \E i \in 1..Len(Log) : Log[i].op = op /\ Log[i].ev = ev

(* The cover upload of the served publish call has failed: its token       *)
(* request (the call's first request) failed, or the file was missing, not *)
(* a regular file or too large, or the upload request failed.              *)
CoverUploadFailed ==
    /\ AcceptedPublish(Served) /\ CoverGiven(Served)
    /\ Len(Log) >= 2
    /\ \/ Log[2].ev = "failed"
       \/ /\ Log[2].ev = "ok" /\ pc[Server] # "fs.stat"
          /\ ~CoverFileOk(FsStat(Served.coverImagePath))
       \/ Logged("uploadMedia", "failed")

(* A step after the cover upload has failed. *)
LaterStepFailed ==
    \E i \in 3..Len(Log) : Log[i].ev = "failed" /\ Log[i].op # "uploadMedia"

NoRecipient == Served.previewMode /\ Falsy(Served.previewOpenId)

(* C11: when the cover upload has failed, whatever the reason, the call     *)
(* goes on without a cover: no article payload it sends carries a           *)
(* thumb_media_id, its response reports no cover, and the response is an    *)
(* error only if a later step failed (or the preview recipient is           *)
(* missing), a success otherwise.                                           *)
C11_CoverFailureNonFatal ==
    CoverUploadFailed =>
       /\ \A i \in 1..Len(Log) : Log[i].thumb = Undefined
       /\ net[Server].thumb = Undefined
       /\ frame[Server].thumbMediaId = Null
       /\ Responded =>
             /\ result[Server].thumbMediaId = Null
             /\ result[Server].isError => (LaterStepFailed \/ NoRecipient)
             /\ ~result[Server].isError => result[Server].success

(* A publish whose cover upload the platform rejected has created its       *)
(* draft without a cover and ended in a success.                            *)
C11_Witness ==
    /\ CoverUploadFailed /\ Logged("uploadMedia", "failed")
    /\ \E i \in 1..Len(Log) :
          Log[i] = Event("createDraft", "sent")
    /\ Responded /\ result[Server].success
    /\ ~Falsy(result[Server].publishId)
    /\ result[Server].thumbMediaId = Null

(* The first entry of the log for this operation with this outcome (0:     *)
(* none).                                                                  *)
FirstLogged(op, ev) ==
    IF Logged(op, ev)
    THEN CHOOSE i \in 1..Len(Log) :
            /\ Log[i].op = op /\ Log[i].ev = ev
            /\ \A j \in 1..(i - 1) : ~(Log[j].op = op /\ Log[j].ev = ev)
    ELSE 0

(* op2 was sent only after op1 had returned successfully. *)
SentAfterOk(op2, op1) ==
    Logged(op2, "sent") =>
        /\ Logged(op1, "ok")
        /\ FirstLogged(op1, "ok") < FirstLogged(op2, "sent")

(* C12: within one publish call the operations are issued one after the     *)
(* other, in the order createDraft, submitPublish, settling wait,           *)
(* fetchPublishStatus: each is started only after the one before it has     *)
(* returned, and no operation is started while another is in flight (in     *)
(* the log every "sent" is followed by its own outcome before the next      *)
(* "sent").                                                                 *)
C12_PublishOrder ==
    Served.tool = "publish" =>
       /\ SentAfterOk("submitPublish", "createDraft")
       /\ SentAfterOk("settle", "submitPublish")
       /\ SentAfterOk("fetchPublishStatus", "settle")
       /\ \A i \in 1..Len(Log) :
             IF i % 2 = 1
             THEN Log[i].ev = "sent"
             ELSE Log[i].ev # "sent" /\ Log[i].op = Log[i - 1].op
       /\ (Len(Log) % 2 = 1) =
             (net[Server].op # "none" \/ pc[Server] = "settle")

(* A publish has gone through draft, submit, wait and status query. *)
C12_Witness ==
    /\ Served.tool = "publish" /\ Responded /\ result[Server].success
    /\ Logged("createDraft", "ok") /\ Logged("submitPublish", "ok")
    /\ Logged("settle", "ok") /\ Logged("fetchPublishStatus", "ok")

(* msg contains the text as one of its parts. *)
Contains(msg, text) == \E i \in 1..Len(msg) : msg[i] = text

(* The entry of a createDraft response that was an HTTP 200 carrying a     *)
(* non-zero errcode.                                                       *)
DraftRejected(e) ==
    e.op = "createDraft" /\ e.ev # "sent" /\ e.errcode # 0

(* C13: when createDraft is answered with HTTP 200 and a non-zero errcode,  *)
(* the call ends in an error whose message contains the platform's errmsg,  *)
(* and submitPublish is never sent.                                         *)
C13_DraftErrorAborts ==
    \A i \in 1..Len(Log) :
        DraftRejected(Log[i]) =>
           /\ Log[i].ev = "failed"
           /\ Responded /\ result[Server].isError
           /\ Contains(result[Server].error, Log[i].errmsg)
           /\ ~Logged("submitPublish", "sent")

(* A draft request has been rejected with an errcode and an errmsg. *)
C13_Witness ==
    /\ \E i \in 1..Len(Log) : DraftRejected(Log[i]) /\ Log[i].errmsg # ""
    /\ Responded /\ result[Server].isError

(* The body of the successful response to op (NoBody: none). *)
OkBody(op) ==
    IF Logged(op, "ok") THEN Log[FirstLogged(op, "ok")].data ELSE NoBody

(* The identifiers the platform returned to the served publish call. *)
DraftMediaId == Field(OkBody("createDraft"), "media_id")
SubmitPublishId == Field(OkBody("submitPublish"), "publish_id")
SubmitMsgId == Field(OkBody("submitPublish"), "msg_id")

(* The article URL the confirmation step yielded: the url of the first     *)
(* item of the status data (fabricated data for a test_ identifier), Null  *)
(* when the step failed or the data has no item.                           *)
FirstItemUrl(data) ==
    IF Has(data, "article_detail") /\ Len(data.article_detail.item) > 0
    THEN Field(data.article_detail.item[1], "url")
    ELSE Null

ConfirmedUrl ==
    IF ~Falsy(SubmitPublishId) /\ IsTest(SubmitPublishId)
    THEN FirstItemUrl(MockStatus(SubmitPublishId, now, MockStatsMin))
    ELSE FirstItemUrl(OkBody("fetchPublishStatus"))

(* A publish call with real credentials whose submit has returned without  *)
(* an error has been answered.                                             *)
Published ==
    /\ AcceptedPublish(Served) /\ ~Served.previewMode
    /\ ~IsTest(Served.appId)
    /\ Logged("submitPublish", "ok")
    /\ Responded

(* C14: with real credentials, when createDraft returned media_id M and     *)
(* submitPublish returned publish_id P and msg_id S without error codes,    *)
(* the result is a success with mediaId = M, publishId = P, msgId = S and   *)
(* an articleUrl that is the first item's url of the status data or the     *)
(* fallback URL made of P.                                                  *)
C14_PublishResult ==
    Published =>
       /\ result[Server].success /\ ~result[Server].isError
       /\ result[Server].mediaId = DraftMediaId
       /\ result[Server].publishId = SubmitPublishId
       /\ result[Server].msgId = SubmitMsgId
       /\ result[Server].articleUrl
             \in {ConfirmedUrl, FallbackUrl(SubmitPublishId)}

(* A publish has returned the three identifiers of the platform and the    *)
(* URL the status data gave.                                               *)
C14_Witness ==
    /\ Published
    /\ ~Falsy(DraftMediaId) /\ ~Falsy(SubmitPublishId)
    /\ ~Falsy(SubmitMsgId) /\ SubmitMsgId # SubmitPublishId
    /\ Logged("fetchPublishStatus", "ok")
    /\ result[Server].articleUrl = ConfirmedUrl

(* C15: once submitPublish has returned, the confirmation step cannot fail  *)
(* the publish: the result is a success whose articleUrl is never empty,    *)
(* and when the status query (its token request included) failed or gave    *)
(* no item or no url, the articleUrl is the fallback URL made of the        *)
(* publish identifier.                                                      *)
C15_UrlFallback ==
    Published =>
       /\ result[Server].success
       /\ ~Falsy(result[Server].articleUrl)
       /\ Falsy(ConfirmedUrl) =>
             result[Server].articleUrl = FallbackUrl(SubmitPublishId)
       /\ ~Falsy(ConfirmedUrl) => result[Server].articleUrl = ConfirmedUrl

(* A publish whose status query failed has returned the fallback URL. *)
C15_Witness ==
    /\ Published /\ ~Falsy(SubmitPublishId)
    /\ Logged("fetchPublishStatus", "failed")
    /\ result[Server].articleUrl = FallbackUrl(SubmitPublishId)

(* C16: for every remote operation, an HTTP 200 response whose body         *)
(* carries a non-zero errcode is taken as a failure of the operation,       *)
(* never as a success, whatever else the body carries: no log entry is a    *)
(* success with a non-zero errcode.                                         *)
C16_EmbeddedCodeChecked ==
    \A i \in 1..Len(Log) : Log[i].ev = "ok" => Log[i].errcode = 0

RemoteOps ==
    {"fetchToken", "uploadMedia", "createDraft", "submitPublish",
     "createPreviewMedia", "sendPreview", "fetchPublishStatus"}

(* How often the running call has sent this operation. *)
SentCount(op) ==
    Cardinality({ i \in 1..Len(Log) : Log[i].op = op /\ Log[i].ev = "sent" })

(* The entry at i belongs to the token request of the cover upload, the    *)
(* first request of a publish call that names a cover image.               *)
CoverTokenEntry(i) ==
    i <= 2 /\ Served.tool = "publish" /\ CoverGiven(Served)

(* C17 as stated: every remote operation, fetchToken included, is sent at   *)
(* most once per call.                                                      *)
C17_AtMostOncePerCall ==
    \A op \in RemoteOps : SentCount(op) <= 1

(* C17: nothing is retried inside one call.  Every remote operation other   *)
(* than fetchToken is sent at most once; fetchToken is sent at most once by *)
(* each step that needs a token, three times at most; the request sent      *)
(* right after a fetchToken response is another fetchToken only after the   *)
(* cover upload's; and after a failed fetchToken other than the cover       *)
(* upload's nothing more is sent.                                           *)
C17_NoRetry ==
    /\ \A op \in RemoteOps \ {"fetchToken"} : SentCount(op) <= 1
    /\ SentCount("fetchToken") <= 3
    /\ \A i \in 1..(Len(Log) - 1) :
          (Log[i].op = "fetchToken" /\ Log[i].ev # "sent")
          => /\ Log[i + 1].op = "fetchToken" => CoverTokenEntry(i)
             /\ Log[i].ev = "failed" => CoverTokenEntry(i)

(* After the token request of the cover upload failed, the call has        *)
(* fetched a token again, succeeded, and sent fetchToken three times.      *)
C17_Witness ==
    /\ Len(Log) >= 2 /\ Log[2].op = "fetchToken" /\ Log[2].ev = "failed"
    /\ SentCount("fetchToken") = 3
    /\ Responded /\ result[Server].success

(* The entry at i belongs to the cover upload: its token request or the    *)
(* upload itself.                                                          *)
CoverEntry(i) ==
    \/ Log[i].op = "uploadMedia"
    \/ Log[i].op = "fetchToken" /\ CoverTokenEntry(i)

(* The entry at i belongs to the confirmation step of a publish: the       *)
(* status query after the wait, or its token request.                      *)
ConfirmationEntry(i) ==
    /\ Served.tool = "publish"
    /\ Logged("settle", "ok") /\ i > FirstLogged("settle", "ok")
    /\ Log[i].op \in {"fetchToken", "fetchPublishStatus"}

(* C18 as stated: in a publish call every failure outside the cover upload  *)
(* yields an error result.                                                  *)
C18_OnlyCoverSwallowed ==
    (Served.tool = "publish" /\ Responded) =>
        \A i \in 1..Len(Log) :
            (Log[i].ev = "failed" /\ ~CoverEntry(i)) => result[Server].isError

(* C18: in a publish call the failures that are swallowed are those of the  *)
(* cover upload and of the confirmation step; the failure of any other      *)
(* step (token request, createDraft, submitPublish, createPreviewMedia,     *)
(* sendPreview) ends the call at once in an error result.                   *)
C18_SwallowedFailures ==
    Served.tool = "publish" =>
        \A i \in 1..Len(Log) :
            (Log[i].ev = "failed" /\ ~CoverEntry(i) /\ ~ConfirmationEntry(i))
            => /\ i = Len(Log)
               /\ Responded
               /\ result[Server].isError /\ ~result[Server].success

(* After a swallowed cover upload failure the submit request failed and    *)
(* the call ended in an error.                                             *)
C18_Witness ==
    /\ Served.tool = "publish" /\ Responded /\ result[Server].isError
    /\ Logged("uploadMedia", "failed")
    /\ Logged("submitPublish", "failed")

(* The last entry of the log is the failure that ended the served call. *)
EndedByFailure ==
    /\ Served.tool \in {"publish", "status"}
    /\ Responded /\ result[Server].isError
    /\ Len(Log) > 0 /\ Log[Len(Log)].ev = "failed"
    /\ ~(Served.tool = "publish" /\ CoverEntry(Len(Log)))

(* C19: every error result of publish or query whose failing call got an    *)
(* errmsg from the platform contains that errmsg as it was, behind the      *)
(* prefixes of the catch blocks and of buildErrorMessage; and the result    *)
(* of a failed call is an error whichever hint categories matched.          *)
C19_ErrmsgVerbatim ==
    /\ EndedByFailure =>
          \/ Log[Len(Log)].errmsg = ""
          \/ /\ Contains(result[Server].error, Log[Len(Log)].errmsg)
             /\ Head(result[Server].error)
                   \in {"publish failed: ", "status query failed: "}
    /\ (Responded /\ ~result[Server].success) =>
          /\ result[Server].isError
          /\ result[Server].hints \subseteq
                {"credentials", "ip", "cover", "msgId"}

(* An error result carries the errmsg of a rejected request and hints of   *)
(* two categories.                                                         *)
C19_Witness ==
    /\ EndedByFailure
    /\ Log[Len(Log)].errmsg # ""
    /\ Contains(result[Server].error, Log[Len(Log)].errmsg)
    /\ Cardinality(result[Server].hints) = 2


----------------------------------------------------------------------------
(* Properties of extractDigest (SpecDigest) *)

(* C20: for every input the digest extractDigest returns, the ellipsis     *)
(* included, is at most 60 characters long.                                *)
C20_DigestBound ==
    applied = 1 => Len(digest) <= DigestLimit


(* What the digest must be free of, stated on the characters themselves. *)
HasStyleBlock(s) ==
    \E i \in 1..Len(s) :
        /\ StartsAt(s, i, StyleOpen)
        /\ \E j \in (i + Len(StyleOpen))..Len(s) :
              /\ s[j] = ">"
              /\ \E k \in (j + 1)..Len(s) : StartsAt(s, k, StyleClose)

HasTag(s) ==
    \E i \in 1..Len(s) : \E j \in (i + 1)..Len(s) : s[i] = "<" /\ s[j] = ">"

HasMark(s) == \E i \in 1..Len(s) : s[i] \in {"#", "*", Grave}

HasSpaceRun(s) ==
    \E i \in 1..(Len(s) - 1) :
        s[i] \in {" ", "\n", "\t"} /\ s[i + 1] \in {" ", "\n", "\t"}

(* C21: extractDigest applied to its own output returns that output, and   *)
(* the output holds no style block, no tag, none of the three marks and no *)
(* run of two or more white-space characters.                              *)
C21_DigestIdempotent ==
    /\ applied = 2 => digest = extractDigest(content)
    /\ applied >= 1 =>
          /\ ~HasStyleBlock(digest)
          /\ ~HasTag(digest)
          /\ ~HasMark(digest)
          /\ ~HasSpaceRun(digest)

(* Applied twice to a content with a tag and a mark whose text is longer   *)
(* than the limit.                                                         *)
C21_Witness ==
    /\ applied = 2
    /\ HasTag(content) /\ HasMark(content)
    /\ Len(digest) > DigestLimit
    /\ digest # content


----------------------------------------------------------------------------
(* Properties of getStatusText (SpecStatusText) *)

(* The state each platform code stands for. *)
PublishState ==
    [s \in 0..4 |->
        CASE s = 0 -> "publishing"
          [] s = 1 -> "published"
          [] s = 2 -> "publish failed"
          [] s = 3 -> "in review"
          [] s = 4 -> "review failed"]

(* C22: the codes 0, 1, 2, 3, 4 map to pending, published, failed, under   *)
(* review and review failed, five distinct texts; every other code maps    *)
(* to an explicit unknown text that names the code, and no text is         *)
(* missing.                                                                *)
C22_StatusTextTotal ==
    /\ applied = 1 =>
          /\ ~Falsy(statusText)
          /\ status \in 0..4 => statusText = <<PublishState[status]>>
          /\ status \notin 0..4 =>
                /\ Head(statusText) = "unknown status("
                /\ statusText[2] = ToString(status)
    /\ \A s, t \in 0..4 : getStatusText(s) = getStatusText(t) => s = t

(* The code 99 mapped to the unknown text. *)
C22_Witness ==
    /\ applied = 1
    /\ status = 99
    /\ statusText = <<"unknown status(", "99", ")">>


----------------------------------------------------------------------------
(* Properties of the status query and of the preview (Spec) *)

AcceptedStatus(r) == r.tool = "status" /\ validateStatusParams(r)

(* C23: an accepted status query for an id with the test_ prefix issues no *)
(* remote operation (no fetchToken, no fetchPublishStatus) and ends in a   *)
(* success result whose status data has errcode 0, with test and with      *)
(* real credentials.                                                       *)
C23_TestStatusNoNetwork ==
    (AcceptedStatus(Served) /\ IsTest(Served.msgId))
    => /\ log[Server] = <<>>
       /\ net[Server] = NoReq
       /\ Responded
       /\ result[Server].success /\ ~result[Server].isError
       /\ Has(result[Server].status, "errcode")
       /\ result[Server].status.errcode = 0

(* A test id queried with real credentials, answered. *)
C23_Witness ==
    /\ AcceptedStatus(Served) /\ IsTest(Served.msgId)
    /\ ~IsTest(Served.appId)
    /\ Responded /\ result[Server].success
    /\ result[Server].status.publish_status = 1

(* The status data carries engagement statistics where getPublishStatus    *)
(* puts them: in the first item of article_detail.                         *)
HasItemStats(data) ==
    /\ Has(data, "article_detail")
    /\ Has(data.article_detail, "item")
    /\ Len(data.article_detail.item) > 0
    /\ Has(data.article_detail.item[1], "stat_info")

(* C24: a status query answered with status data of a published item      *)
(* (publish_status = 1, engagement statistics in the shape                 *)
(* getPublishStatus returns) reports the state as published and carries    *)
(* the four engagement counters of that data.                              *)
C24_PublishedWithCounters ==
    (/\ Served.tool = "status" /\ Responded /\ result[Server].success
     /\ Field(result[Server].status, "publish_status") = 1
     /\ HasItemStats(result[Server].status))
    => /\ result[Server].message.statusText = <<"published">>
       /\ result[Server].message.stats # Undefined
       /\ LET stat == result[Server].status.article_detail.item[1].stat_info
          IN  result[Server].message.stats =
                 [read |-> stat.read_num, like |-> stat.like_num,
                  comment |-> stat.comment_num, share |-> stat.share_num]

(* The served call is a preview that reached previewArticle's result. *)
PreviewSucceeded ==
    /\ AcceptedPublish(Served) /\ Served.previewMode
    /\ Responded /\ result[Server].success

(* C25: a preview never issues createDraft or submitPublish, and the       *)
(* result of previewArticle, for a test recipient or a real one, carries   *)
(* the msgId and at most the media reference: no publishId and no other    *)
(* identifier of a published article.                                      *)
C25_PreviewNoPublishIds ==
    /\ (AcceptedPublish(Served) /\ Served.previewMode) =>
          /\ ~Logged("createDraft", "sent")
          /\ ~Logged("submitPublish", "sent")
    /\ PreviewSucceeded =>
          /\ ~Falsy(result[Server].msgId)
          /\ result[Server].publishId = Undefined
          /\ result[Server].articleUrl = Undefined

(* The served call is an accepted status query for a real id, answered. *)
RealStatusAnswered ==
    /\ AcceptedStatus(Served) /\ ~IsTest(Served.msgId)
    /\ Responded

(* C26 as stated: every status query for a real id issues exactly one      *)
(* fetchPublishStatus request and its result is the body of that request's *)
(* response.                                                               *)
C26_ExactlyOneFetch ==
    RealStatusAnswered =>
        /\ SentCount("fetchPublishStatus") = 1
        /\ result[Server].success =>
              result[Server].status = OkBody("fetchPublishStatus")

(* C26, amended: a status query for a real id whose token request          *)
(* succeeded issues exactly one fetchPublishStatus request, one whose      *)
(* token request failed issues none and ends in an error; a success        *)
(* result is built from the body of the call's own response, whatever an   *)
(* earlier query was answered.                                             *)
C26_StatusFetchedFresh ==
    /\ (AcceptedStatus(Served) /\ ~IsTest(Served.msgId)) =>
          SentCount("fetchPublishStatus") <= 1
    /\ RealStatusAnswered =>
          /\ SentCount("fetchPublishStatus") =
                (IF Logged("fetchToken", "ok") THEN 1 ELSE 0)
          /\ ~Logged("fetchPublishStatus", "sent") => result[Server].isError
          /\ result[Server].success =>
                /\ Logged("fetchPublishStatus", "ok")
                /\ result[Server].status = OkBody("fetchPublishStatus")
                /\ result[Server].message =
                      buildStatusMessage(OkBody("fetchPublishStatus"))

(* The second call is a status query answered from its own response, after *)
(* an earlier call with the same credentials that left a token behind.     *)
C26_Witness ==
    /\ RealStatusAnswered /\ result[Server].success
    /\ calls = 2 /\ prev.cached /\ prev.appId = Served.appId
    /\ SentCount("fetchPublishStatus") = 1
    /\ result[Server].status.publish_status = 2

(* The served call is an accepted publish, not a preview, with real        *)
(* credentials.                                                            *)
RealPublish ==
    /\ AcceptedPublish(Served) /\ ~Served.previewMode
    /\ ~IsTest(Served.appId)

(* The entry at i is the outcome of a step of publishArticle's own path:   *)
(* its token request, createDraft or submitPublish.                        *)
PublishPathEntry(i) ==
    \/ Log[i].op \in {"createDraft", "submitPublish"}
    \/ /\ Log[i].op = "fetchToken"
       /\ ~CoverEntry(i) /\ ~ConfirmationEntry(i)

(* C28: with real credentials a publish ends in a success only after       *)
(* createDraft was sent and returned without a non-zero code and then      *)
(* submitPublish was sent and returned without a non-zero code; a failure  *)
(* of publishArticle's token request, of createDraft or of submitPublish   *)
(* ends the call in an error; and no call ends both ways.                  *)
C28_PublishForward ==
    /\ ~(result[Server].success /\ result[Server].isError)
    /\ RealPublish =>
          /\ (Responded /\ result[Server].success) =>
                /\ Logged("createDraft", "ok")
                /\ Logged("submitPublish", "ok")
                /\ Log[FirstLogged("createDraft", "ok")].errcode = 0
                /\ Log[FirstLogged("submitPublish", "ok")].errcode = 0
                /\ FirstLogged("createDraft", "sent")
                      < FirstLogged("createDraft", "ok")
                /\ FirstLogged("createDraft", "ok")
                      < FirstLogged("submitPublish", "sent")
                /\ FirstLogged("submitPublish", "sent")
                      < FirstLogged("submitPublish", "ok")
          /\ \A i \in 1..Len(Log) :
                (Log[i].ev = "failed" /\ PublishPathEntry(i))
                => /\ i = Len(Log)
                   /\ Responded
                   /\ result[Server].isError
          /\ (Responded /\ result[Server].isError) =>
                \E i \in 1..Len(Log) :
                    Log[i].ev = "failed" /\ PublishPathEntry(i)

(* A publish with a cover image has ended in a success after draft and     *)
(* submit although its status request failed.                              *)
C28_Witness ==
    /\ RealPublish /\ CoverGiven(Served)
    /\ Responded /\ result[Server].success
    /\ Logged("submitPublish", "ok")
    /\ Logged("fetchPublishStatus", "failed")

(* The served call is an accepted preview to a real recipient. *)
RealPreview ==
    /\ AcceptedPublish(Served) /\ Served.previewMode
    /\ ~Falsy(Served.previewOpenId) /\ ~IsTest(Served.previewOpenId)

(* The body carries an embedded status code and it is 0. *)
CodeIsZero(data) == Has(data, "errcode") /\ data.errcode = 0

(* C29: in a preview to a real recipient sendPreview is sent only after    *)
(* createPreviewMedia was sent and returned a media_id; when               *)
(* createPreviewMedia fails sendPreview is never sent and the call ends in *)
(* an error; the call succeeds only when the sendPreview response carries  *)
(* the embedded code 0, and a response with another code or with none      *)
(* ends it in an error.                                                    *)
C29_PreviewOrder ==
    RealPreview =>
       /\ Logged("sendPreview", "sent") =>
             /\ Logged("createPreviewMedia", "ok")
             /\ FirstLogged("createPreviewMedia", "sent")
                   < FirstLogged("createPreviewMedia", "ok")
             /\ FirstLogged("createPreviewMedia", "ok")
                   < FirstLogged("sendPreview", "sent")
             /\ ~Falsy(Field(OkBody("createPreviewMedia"), "media_id"))
       /\ Logged("createPreviewMedia", "failed") =>
             /\ ~Logged("sendPreview", "sent")
             /\ Responded /\ result[Server].isError
       /\ (Responded /\ result[Server].success) =>
             /\ Logged("sendPreview", "ok")
             /\ CodeIsZero(OkBody("sendPreview"))
             /\ result[Server].mediaId
                   = OkBody("createPreviewMedia").media_id
       /\ \A i \in 1..Len(Log) :
             (Log[i].op = "sendPreview" /\ Log[i].ev # "sent"
              /\ ~CodeIsZero(Log[i].data))
             => /\ Log[i].ev = "failed"
                /\ Responded
                /\ result[Server].isError /\ ~result[Server].success

(* A preview has ended in an error because the sendPreview response, which *)
(* had a msg_id, carried no embedded code.                                 *)
C29_Witness ==
    /\ RealPreview /\ Responded /\ result[Server].isError
    /\ Logged("createPreviewMedia", "ok")
    /\ Log[Len(Log)].op = "sendPreview"
    /\ Has(Log[Len(Log)].data, "msg_id")
    /\ ~Has(Log[Len(Log)].data, "errcode")

(* path.extname(imagePath): the last part of the path. *)
ExtName(path) == path[Len(path)]

AllowedExt == {".png", ".jpg", ".jpeg", ".gif", ".webp"}

(* The cover path of the served call must be rejected.                     *)
CoverMustBeRejected ==
    LET stats == FsStat(Served.coverImagePath) IN
    \/ ~stats.exists
    \/ ~stats.isFile
    \/ stats.size > MaxCoverBytes
    \/ ExtName(Served.coverImagePath) \notin AllowedExt

(* C30: for a cover path that does not exist, is no regular file, is       *)
(* larger than 1 MiB or has an extension outside png, jpg, jpeg, gif, webp *)
(* the uploadMedia request is never sent; for an accepted file, once       *)
(* uploadCoverImage has its token and the call has ended, exactly one      *)
(* uploadMedia request has been sent.                                      *)
C30_CoverFileChecks ==
    (AcceptedPublish(Served) /\ CoverGiven(Served)) =>
       /\ CoverMustBeRejected => ~Logged("uploadMedia", "sent")
       /\ (/\ ~CoverMustBeRejected /\ Responded
           /\ Len(Log) >= 2 /\ Log[2].ev = "ok")
          => SentCount("uploadMedia") = 1

----------------------------------------------------------------------------
(* Termination (SpecLive) *)

(* The entry of a request that ran into its timeout: it failed without a   *)
(* response.                                                               *)
TimedOut(e) == e.ev = "failed" /\ e.data = NoBody /\ e.errmsg = ""

NetworkPrefixes ==
    {"Access Token network request failed: ",
     "publish article request failed: ",
     "create news media request failed: ",
     "article preview request failed: ",
     "status query request failed: "}

(* The response is a network error: the message of the timeout behind the  *)
(* prefix of a catch block's branch for errors without a response.         *)
NetworkError(res) ==
    /\ res.isError /\ ~res.success
    /\ Contains(res.error, NoResponse.message)
    /\ \E i \in 1..Len(res.error) : res.error[i] \in NetworkPrefixes

(* A call that has ended has one result, a success or an error; a request  *)
(* that timed out outside the cover upload and the confirmation step ends  *)
(* the call at once in a network error; and no operation is sent again     *)
(* after it timed out, except fetchToken by the step that follows the      *)
(* cover upload.                                                           *)
OneResultNoRetry ==
    /\ (pc[Server] = "idle" /\ Served.tool # "none") =>
          /\ result[Server].done
          /\ result[Server].isError # result[Server].success
    /\ pc[Server] # "idle" => ~result[Server].done
    /\ \A i \in 1..Len(Log) :
          TimedOut(Log[i]) =>
             /\ (~CoverEntry(i) /\ ~ConfirmationEntry(i)) =>
                   /\ i = Len(Log)
                   /\ Responded
                   /\ NetworkError(result[Server])
             /\ \A j \in (i + 1)..Len(Log) :
                   (Log[j].op = Log[i].op /\ Log[j].ev = "sent") =>
                       /\ Log[i].op = "fetchToken"
                       /\ CoverEntry(i)

(* C27: provided every request is answered or times out, every publish,    *)
(* preview and status call ends, with exactly one result (a success or an  *)
(* error); a request that times out fails the call with a network error,   *)
(* unless it belongs to the cover upload or to the URL confirmation, and   *)
(* is not sent again.                                                      *)
C27_CallsTerminate ==
    /\ []OneResultNoRetry
    /\ (pc[Server] # "idle") ~> Responded

(* A call has ended in a network error after a request timed out, its      *)
(* cover upload having timed out before.                                   *)
C27_Witness ==
    /\ Responded /\ NetworkError(result[Server])
    /\ Len(Log) > 4
    /\ TimedOut(Log[Len(Log)])
    /\ \E i \in 1..(Len(Log) - 1) : TimedOut(Log[i]) /\ CoverEntry(i)


----------------------------------------------------------------------------
(* Who writes the token cache (Spec) *)

(* The cached token of an instance and its expiry. *)
CacheOf(a) == <<a.accessToken, a.tokenExpireTime>>

(* The step answers the token request in flight, and getAccessToken takes  *)
(* the answer as a success ("ok") or throws ("failed").                    *)
RefreshStep(ev) ==
    LET n == Len(log[Server]) + 1 IN
    /\ net[Server].op = "fetchToken"
    /\ Len(log'[Server]) >= n
    /\ log'[Server][n].op = "fetchToken"
    /\ log'[Server][n].ev = ev

(* What a call that ends leaves behind of its instance's cache. *)
LeftBehind(a) ==
    IF a.accessToken # NoToken
    THEN [cached |-> TRUE, appId |-> a.appId,
          tokenExpireTime |-> a.tokenExpireTime]
    ELSE prev

(* C31: the cached token and its expiry are written only by a refresh that *)
(* getAccessToken takes as a success.  The constructor starts the cache    *)
(* empty; in a step inside a call the cache changes only if the step is a  *)
(* successful refresh, and then to the token of that response; a refresh   *)
(* that throws leaves the cache as it was, whether the call goes on or     *)
(* ends; a step of any other operation, the last of the call included,     *)
(* leaves it as it was.                                                    *)
C31_CacheWrittenByRefreshOnly ==
    [][LET a == api[Server]
           b == api'[Server]
           n == Len(log[Server]) + 1
           running == pc[Server] # "idle"
           goesOn == pc'[Server] # "idle"
       IN  /\ (~running /\ goesOn) =>
                  CacheOf(b) = <<NoToken, InitialExpireTime>>
           /\ (running /\ goesOn /\ CacheOf(b) # CacheOf(a)) =>
                  /\ RefreshStep("ok")
                  /\ b.accessToken = log'[Server][n].data.access_token
           /\ (running /\ goesOn /\ RefreshStep("failed")) =>
                  CacheOf(b) = CacheOf(a)
           /\ (running /\ ~goesOn /\ ~RefreshStep("ok")) =>
                  prev' = LeftBehind(a)]_vars

(* A call whose first refresh filled the cache and whose second refresh    *)
(* failed has ended: the cache it leaves behind is the one the first       *)
(* refresh wrote.                                                          *)
C31_Witness ==
    /\ Responded /\ result[Server].isError
    /\ prev.cached
    /\ \E i \in 1..Len(Log) : \E j \in (i + 1)..Len(Log) :
          /\ Log[i].op = "fetchToken" /\ Log[i].ev = "ok"
          /\ Log[j].op = "fetchToken" /\ Log[j].ev = "failed"
          /\ prev.tokenExpireTime =
                ExpireTime(0, Log[i].data.expires_in)

----------------------------------------------------------------------------
(* The cached pair (SpecToken) *)

(* The fetchToken requests of the shared instance still in flight. *)
InFlightIds == { net[p].id : p \in { q \in Procs : net[q].op = "fetchToken" } }

(* C32: in every state the stored token and the stored expiry come from    *)
(* the same token response: the expiry is the one computed from the        *)
(* expires_in that arrived with the stored token and from the start time   *)
(* of the invocation that asked for it (a token names its request and the  *)
(* time the platform lets it expire); a token is stored only if the        *)
(* request that delivered it was sent and has been answered; with no token *)
(* stored the expiry is the constructor's.                                 *)
C32_CachePairedFromOneRefresh ==
    LET a == api[1] IN
    IF a.accessToken = NoToken
    THEN a.tokenExpireTime = InitialExpireTime
    ELSE /\ a.tokenExpireTime =
               a.accessToken.expiresAt - SafetyMarginSec * MsPerSec
         /\ a.accessToken.id \in 1..gets
         /\ a.accessToken.id \notin InFlightIds

(* Two refreshes overlapped and both succeeded, with different expiries:   *)
(* the cache holds the token and the expiry of the one that returned last. *)
C32_Witness ==
    /\ last.state = "returned" /\ last.fresh /\ last.raced
    /\ last.rival # last.computed
    /\ api[1].accessToken = last.value
    /\ api[1].tokenExpireTime = last.computed

----------------------------------------------------------------------------
(* Every call is answered with a response object (Spec) *)

(* A step that is not swallowed has thrown: a step of a status query, or a *)
(* step of a publish outside the cover upload and the URL confirmation.    *)
StepFailed ==
    \E i \in 1..Len(Log) :
        /\ Log[i].ev = "failed"
        /\ Served.tool = "publish" => (~CoverEntry(i) /\ ~ConfirmationEntry(i))

(* The input of the served call is rejected: by the validator, or by the   *)
(* cross-field check of a preview without a recipient.                     *)
InputRejected ==
    IF Served.tool = "publish"
    THEN ~validatePublishParams(Served) \/ NoRecipient
    ELSE ~validateStatusParams(Served)

(* C33: publish and query never leave their caller without a response      *)
(* object: whenever a call is over a response has been returned; it has a  *)
(* text; and it is an error exactly when the input was rejected or a step  *)
(* that is not swallowed failed.                                           *)
C33_AlwaysAResponse ==
    /\ (pc[Server] = "idle" /\ calls > 0) => result[Server].done
    /\ Responded =>
          LET r == result[Server] IN
          /\ r.isError <=> (InputRejected \/ StepFailed)
          /\ r.isError =>
                /\ ~r.success
                /\ Len(r.error) >= 2
                /\ Head(r.error) \in {"publish failed: ",
                                      "status query failed: "}
          /\ ~r.isError => (r.success /\ r.error = <<>>)

(* A status query whose token request succeeded and whose status request  *)
(* failed has been answered with an error response that carries a text.   *)
C33_Witness ==
    /\ Responded /\ calls = MaxCalls
    /\ Served.tool = "status" /\ ~InputRejected
    /\ Logged("fetchToken", "ok")
    /\ Logged("fetchPublishStatus", "failed")
    /\ result[Server].isError
    /\ Head(result[Server].error) = "status query failed: "

----------------------------------------------------------------------------
(* The ids of a publish (Spec) *)

(* C34: in a publish with real credentials submitPublish is in flight only *)
(* with the media id of the draft in its payload, and a success result     *)
(* carries a media id and a publish id.                                    *)
C34_IdsPresent ==
    RealPublish =>
        /\ net[Server].op = "submitPublish" =>
              ~Falsy(frame[Server].mediaId)
        /\ (Responded /\ result[Server].success) =>
              /\ ~Falsy(result[Server].mediaId)
              /\ ~Falsy(result[Server].publishId)

----------------------------------------------------------------------------
(* The tools/call handler (SpecHandler) *)

(* The handler has taken up the request. *)
Handled == logged # <<>>

KnownTool == request.name \in {PublishTool, StatusTool}

(* C35: the handler calls publish only for the name                        *)
(* wechat_publish_article and query only for wechat_query_status, each     *)
(* once; for any other name it calls neither and its promise resolves with *)
(* an error response that has a text; its promise is never rejected.       *)
C35_DispatchByName ==
    /\ Len(invoked) <= 1
    /\ \A i \in 1..Len(invoked) :
          \/ /\ invoked[i].tool = "WeChatPublisher.publish"
             /\ request.name = PublishTool
          \/ /\ invoked[i].tool = "WeChatStatus.query"
             /\ request.name = StatusTool
    /\ (Handled /\ KnownTool) => Len(invoked) = 1
    /\ (Handled /\ ~KnownTool) =>
          /\ invoked = <<>>
          /\ reply.done /\ reply.isError
          /\ reply.text # <<>>
    /\ ~reply.thrown

(* A request for a name close to a tool's, with a secret among its         *)
(* arguments, has been answered with an error and no tool was called.      *)
C35_Witness ==
    /\ Handled /\ request.name = "wechat_publish"
    /\ Has(request.arguments, "appSecret")
    /\ invoked = <<>>
    /\ reply.done /\ reply.isError
    /\ reply.text = <<"tool call failed: ", "Unknown tool: ", "wechat_publish">>

(* A value that is a non-empty string. *)
NonEmpty(v) == v \notin {<<>>, Null, Undefined}

(* C36: the step in which the handler logs the request writes a copy of    *)
(* the arguments with the same keys, in which appSecret, password, token   *)
(* and secret hold the mask where they held a non-empty value and every    *)
(* other key holds what it held; the arguments object of the request is    *)
(* left as it was, and it is the object the tool is handed.                *)
C36_SanitizedCopy ==
    [][(logged = <<>> /\ logged' # <<>>) =>
          LET p == request.arguments
              s == logged'[1].meta.args
          IN  /\ DOMAIN s = DOMAIN p
              /\ \A k \in DOMAIN p :
                    s[k] = IF /\ k \in {"appSecret", "password", "token",
                                        "secret"}
                              /\ NonEmpty(p[k])
                           THEN <<"***">>
                           ELSE p[k]
              /\ request'.arguments = p
              /\ \A i \in 1..Len(invoked') : invoked'[i].params = p]_vars

(* The publish tool has been handed the real appSecret while the log holds *)
(* the mask in its place, an empty secret as it was, and the nested secret *)
(* as it was.                                                              *)
C36_Witness ==
    /\ Handled /\ invoked # <<>>
    /\ invoked[1].tool = "WeChatPublisher.publish"
    /\ Has(invoked[1].params, "appSecret")
    /\ invoked[1].params.appSecret = <<"s3cr3t">>
    /\ logged[1].meta.args.appSecret = <<"***">>
    /\ Has(request.arguments, "secret")
    /\ request.arguments.secret = <<>>
    /\ logged[1].meta.args.secret = <<>>
    /\ Has(request.arguments, "config")
    /\ logged[1].meta.args.config = [secret |-> <<"inner">>]
=============================================================================
